---- MODULE Spec2Model ----
(***************************************************************************)
(* Verification model of PurrMoji Emoji Picker.                            *)
(*                                                                         *)
(*   SpecCache   : CacheManager driven by arbitrary call sequences         *)
(*                 (src/data/managers/cache_manager.py)                    *)
(*   SpecExtract : first-launch extraction: main(), ExtractionDialog and    *)
(*                 the ExtractionWorker thread; FairSpecExtract adds weak  *)
(*                 fairness of the worker thread                           *)
(*   SpecPath    : PackageManager.get_package_folder / PathManager on      *)
(*                 arbitrary arguments (src/data/managers/path_manager.py) *)
(*   Spec        : the EmojiPicker window driven by the user's clicks      *)
(*                 (src/data/ui/mainwindow_dialog.py)                      *)
(*   SpecCacheAny: CacheManager of any capacity, also none or less         *)
(*   SpecEmoji   : EmojiManager, the emoji and code conversions            *)
(*   SpecUsage   : the recent, favorite and frequently used lists          *)
(*   SpecSize    : the emoji size field and the size shortcuts             *)
(*   SpecCombo   : startup and the package dropdown                        *)
(***************************************************************************)
EXTENDS Integers, Sequences, FiniteSets, TLC

(***************************************************************************)
(* Bounds of the model.                                                    *)
(***************************************************************************)
\* capacities the standalone cache is constructed with: 1..MaxCap
MaxCap == 3
\* how far below zero the max_size passed to the constructor goes
MaxBelow == 1
\* number of distinct keys offered to the standalone cache
NumKeys == 3
\* number of distinct values stored in the standalone cache
NumVals == 2
\* number of insertions of a new key followed in one run of the cache
MaxClock == 4
\* sizes requested from the path resolver: None and 0..MaxReqSize
MaxReqSize == 620
\* number of emoji files in each ZIP archive
ZipFiles == 2
\* numbers typed into the size input: 0..MaxTyped
MaxTyped == 620

VARIABLES
    icon_cache,     \* CacheManager.icon_cache: the dict, as the sequence of
                    \* its items in iteration (= insertion) order
    max_size,       \* CacheManager.max_size
    inserted_at,    \* observation: key -> number of the insertion that put
                    \* the key into the dict (present keys only)
    clock,          \* observation: number of insertions of new keys so far
    touched,        \* observation: present keys read by get/contains since
                    \* they were inserted
    last,           \* observation: the last call and what it returned
    path_call,      \* arguments of a PackageManager.get_package_folder call
    path_result,    \* what the call returned
    fs_extracted,   \* file system: package -> number of its files present in
                    \* the user packages directory
    zip_state,      \* file system: package -> state of its ZIP archive(s)
    m_pc,           \* main thread: position in main()
    dlg,            \* the ExtractionDialog
    w,              \* the ExtractionWorker thread
    picker,         \* the EmojiPicker window: its attributes and the state
                    \* of its radio buttons
    rendered,       \* observation: the create_emoji_icon requests that
                    \* returned an icon and whose key was not invalidated since
    obs,            \* observation: what the last handler of the picker did
    em,             \* the EmojiManager: its two dicts, and the last call made
                    \* on it with what the call returned
    dm,             \* the DataManager: emoji_usage_count and
                    \* frequently_used_emojis, and the last call made on it
    zoom,           \* the window's emoji_size, the text of size_input and
                    \* the saved emoji_size, and the last size handler
    combo           \* the window's emoji_packages, the items and the index
                    \* of emoji_package_combo and current_emoji_package

cvars == <<icon_cache, max_size, inserted_at, clock, touched, last>>

pvars == <<path_call, path_result>>

xvars == <<fs_extracted, zip_state, m_pc, dlg, w>>

kvars == <<picker, rendered, obs>>

mvars == <<em, dm, zoom, combo>>

\* what the steps of one component leave alone
notCache == <<pvars, xvars, kvars, mvars>>
notPath == <<cvars, xvars, kvars, mvars>>
notExtract == <<cvars, pvars, kvars, mvars>>
notPicker == <<inserted_at, clock, touched, last, pvars, xvars, mvars>>
notManagers == <<cvars, pvars, xvars, kvars, zoom, combo>>
notZoom == <<em, dm, combo, cvars, pvars, xvars, kvars>>
notCombo == <<em, dm, zoom, cvars, pvars, xvars, kvars>>

vars == <<icon_cache, max_size, inserted_at, clock, touched, last,
          path_call, path_result, fs_extracted, zip_state, m_pc, dlg, w,
          picker, rendered, obs, em, dm, zoom, combo>>

None == "None"

(***************************************************************************)
(* CacheManager  (src/data/managers/cache_manager.py)                      *)
(***************************************************************************)
\* keys of the dict, in iteration order
CacheKeySeq(c) == [i \in 1..Len(c) |-> c[i].key]

CacheKeys(c) == {c[i].key : i \in 1..Len(c)}

\* CacheManager.contains: key in self.icon_cache
CacheContains(c, k) == k \in CacheKeys(c)

\* CacheManager.get: self.icon_cache.get(key)
CacheGet(c, k) ==
    IF CacheContains(c, k)
    THEN (CHOOSE e \in {c[i] : i \in 1..Len(c)} : e.key = k).value
    ELSE None

\* CacheManager.size: len(self.icon_cache)
CacheSize(c) == Len(c)

\* del self.icon_cache[key]
DictDel(c, k) == SelectSeq(c, LAMBDA e : e.key # k)

\* self.icon_cache[key] = value : an existing key keeps its position
DictStore(c, k, v) ==
    IF CacheContains(c, k)
    THEN [i \in 1..Len(c) |-> IF c[i].key = k THEN [key |-> k, value |-> v] ELSE c[i]]
    ELSE Append(c, [key |-> k, value |-> v])

\* next(iter(self.icon_cache)) on an empty dict raises StopIteration
CacheSetRaises(c, m) == Len(c) >= m /\ Len(c) = 0

\* CacheManager.set without the eviction
CacheSetEvictNothing(c, m) == c

\* CacheManager.set evicting at the wrong end of the dict
CacheSetEvictNewest(c, m) ==
    IF Len(c) >= m /\ Len(c) > 0 THEN SubSeq(c, 1, Len(c) - 1) ELSE c

\* CacheManager.set, the eviction: if len(self.icon_cache) >= self.max_size,
\* del self.icon_cache[next(iter(self.icon_cache))]
CacheSetEvict(c, m) ==
    IF Len(c) >= m /\ Len(c) > 0 THEN DictDel(c, c[1].key) ELSE c

\* CacheManager.set
CacheSet(c, m, k, v) ==
    IF CacheSetRaises(c, m) THEN c ELSE DictStore(CacheSetEvict(c, m), k, v)

RECURSIVE DictDelAll(_, _)
\* for key in keys_to_remove: del self.icon_cache[key]
DictDelAll(c, ks) ==
    IF ks = <<>> THEN c ELSE DictDelAll(DictDel(c, Head(ks)), Tail(ks))

\* CacheManager.clear(filter_fn) keeps the matching keys instead
CacheClearFilterKeepsMatching(c, S) ==
    DictDelAll(c, SelectSeq(CacheKeySeq(c), LAMBDA k : k \notin S))

\* CacheManager.clear(filter_fn); S is the set of keys filter_fn accepts
CacheClearFilter(c, S) ==
    DictDelAll(c, SelectSeq(CacheKeySeq(c), LAMBDA k : k \in S))

\* CacheManager.clear() forgets to empty the dict
CacheClearAllKeepsFirst(c) == IF c = <<>> THEN c ELSE <<c[1]>>

\* CacheManager.clear()
CacheClearAll(c) == <<>>

\* no call made yet
NoCall == [op |-> "init", key |-> None, result |-> None, before |-> <<>>,
           arg |-> {}, oldest |-> None]

\* the picker window is not part of the run
PickerIdle == picker = None /\ rendered = {} /\ obs = None

\* the managers are not part of the run
ManagersIdle == em = None /\ dm = None /\ zoom = None /\ combo = None

\* the component is not part of the run
CacheIdle ==
    /\ icon_cache = <<>>
    /\ max_size = 0
    /\ inserted_at = <<>>
    /\ clock = 0
    /\ touched = {}
    /\ last = NoCall

(***************************************************************************)
(* PathManager  (src/data/managers/path_manager.py)                        *)
(* A path is the sequence of its components.  A component is a record:     *)
(* a literal name, or a name formatted from a number ("{n}x{n}", "{n}").   *)
(***************************************************************************)
Lit(s) == [text |-> s, n |-> 0]

\* f"{size}x{size}"
SizeXSize(n) == [text |-> "{n}x{n}", n |-> n]

\* str(size)
StrOf(n) == [text |-> "{n}", n |-> n]

\* PathManager.join: os.path.join(self.packages_dir, *parts)
Join(parts) == <<Lit("<packages_dir>")>> \o parts

\* the value None where a path is expected
NoPath == <<>>

\* size=None, the default of the size parameter
NoSize == -1

\* Python truth value of the size argument: None and 0 are false
Truthy(size) == size # NoSize /\ size # 0

\* PathManager.get_openmoji_path
get_openmoji_path(color_mode, format_type, size) ==
    IF format_type = "png"
    THEN Join(<<Lit("OpenMoji"), Lit("openmoji-master"), Lit(color_mode),
                IF Truthy(size) THEN SizeXSize(size) ELSE SizeXSize(72)>>)
    ELSE IF format_type = "svg"
    THEN Join(<<Lit("OpenMoji"), Lit("openmoji-master"), Lit(color_mode), Lit("svg")>>)
    ELSE IF format_type = "ttf"
    THEN IF color_mode = "color"
         THEN Join(<<Lit("OpenMoji"), Lit("openmoji-master"), Lit("font"),
                     Lit("OpenMoji-color-glyf_colr_0")>>)
         ELSE Join(<<Lit("OpenMoji"), Lit("openmoji-master"), Lit("font"),
                     Lit("OpenMoji-black-glyf")>>)
    ELSE NoPath

\* PathManager.get_noto_path
get_noto_path(color_mode) ==
    IF color_mode = "color"
    THEN Join(<<Lit("Noto"), Lit("NotoColorEmoji-Regular.ttf")>>)
    ELSE Join(<<Lit("Noto"), Lit("NotoEmoji-VariableFont_wght.ttf")>>)

\* PathManager.get_twemoji_path
get_twemoji_path(format_type) ==
    IF format_type = "png"
    THEN Join(<<Lit("Twemoji"), Lit("twemoji-14.0.2"), Lit("assets"), Lit("72x72")>>)
    ELSE Join(<<Lit("Twemoji"), Lit("twemoji-14.0.2"), Lit("assets"), Lit("svg")>>)

\* PathManager.get_emojitwo_path
get_emojitwo_path(color_mode, format_type, size) ==
    IF format_type = "png"
    THEN LET base_folder == IF color_mode = "color" THEN "png" ELSE "png_bw"
         IN IF Truthy(size)
            THEN Join(<<Lit("Emojitwo"), Lit("emojitwo-master"), Lit(base_folder), StrOf(size)>>)
            ELSE Join(<<Lit("Emojitwo"), Lit("emojitwo-master"), Lit(base_folder)>>)
    ELSE Join(<<Lit("Emojitwo"), Lit("emojitwo-master"),
                Lit(IF color_mode = "color" THEN "svg" ELSE "svg_bw")>>)

\* PathManager.get_custom_path: os.path.join(self.source_packages_dir, "custom")
get_custom_path == <<Lit("<source_packages_dir>"), Lit("custom")>>

\* the package names of PackageManager.build_package_configs
PackageNames == {"Custom", "EmojiTwo", "Noto", "OpenMoji", "Segoe UI Emoji",
                 "Twemoji", "Kaomoji"}

\* str.lower on the names the model passes around
Lower(name) ==
    CASE name = "Custom" -> "custom"
      [] name = "EmojiTwo" -> "emojitwo"
      [] name = "Noto" -> "noto"
      [] name = "OpenMoji" -> "openmoji"
      [] name = "Segoe UI Emoji" -> "segoe ui emoji"
      [] name = "Twemoji" -> "twemoji"
      [] name = "Kaomoji" -> "kaomoji"
      [] name = "26BD" -> "26bd"
      [] name = "1F3FD" -> "1f3fd"
      [] name = "1F94E" -> "1f94e"
      [] OTHER -> name

\* PathManager.get_package_path
get_package_path(package_name, color_mode, format_type, size) ==
    LET name == Lower(package_name) IN
    CASE name = "openmoji" -> get_openmoji_path(color_mode, format_type, size)
      [] name = "noto" -> get_noto_path(color_mode)
      [] name = "twemoji" -> get_twemoji_path(format_type)
      [] name = "emojitwo" -> get_emojitwo_path(color_mode, format_type, size)
      [] name = "custom" -> get_custom_path
      [] OTHER -> NoPath

(***************************************************************************)
(* PackageManager  (src/data/managers/package_manager.py)                  *)
(***************************************************************************)
\* PackageManager.build_package_configs: "type" of each package
PackageType(name) ==
    CASE name = "Custom" -> "custom"
      [] name \in {"EmojiTwo", "OpenMoji", "Twemoji"} -> "files"
      [] name = "Noto" -> "ttf_font"
      [] name = "Segoe UI Emoji" -> "system_font"
      [] name = "Kaomoji" -> "kaomoji"
      [] OTHER -> None

\* PackageManager.build_package_configs: "available_sizes" of each package
AvailableSizes(name) ==
    CASE name = "EmojiTwo" -> <<16, 32, 48, 64, 72, 96, 128, 512>>
      [] name = "OpenMoji" -> <<72, 618>>
      [] name = "Twemoji" -> <<72>>
      [] OTHER -> <<>>

\* PackageManager.get_package_folder
get_package_folder(package_name, color_mode, format_type, size) ==
    LET package_type == PackageType(package_name) IN
    CASE package_name \notin PackageNames -> NoPath
      [] package_type = "custom" -> get_custom_path
      [] package_type = "system_font" -> NoPath
      [] package_type = "ttf_font" -> get_noto_path(color_mode)
      [] package_type = "files" ->
            get_package_path(Lower(package_name), color_mode, format_type, size)
      [] OTHER -> NoPath

(***************************************************************************)
(* SpecPath: one get_package_folder call on arbitrary arguments            *)
(***************************************************************************)
ReqSizes == {NoSize} \cup (0..MaxReqSize)

PathArgs == [package_name : PackageNames \cup {"Unknown"},
             color_mode : {"color", "black"},
             format_type : {"png", "svg", "ttf", "gif"},
             size : ReqSizes]

NoPathCall == [package_name |-> None, color_mode |-> None,
               format_type |-> None, size |-> NoSize]

NoPathResult == [returned |-> FALSE, path |-> NoPath]

PathIdle == path_call = NoPathCall /\ path_result = NoPathResult

(***************************************************************************)
(* ZipExtractor  (src/data/managers/zip_extractor.py)                      *)
(***************************************************************************)
\* ZipExtractor.PACKAGE_CONFIG, in the order of its keys
PACKAGE_CONFIG == <<"Emojitwo", "OpenMoji", "Twemoji", "Noto">>

ConfigNames == {PACKAGE_CONFIG[i] : i \in DOMAIN PACKAGE_CONFIG}

\* config.get("type") == "multi_zip"
IsMultiZip(p) == p = "Noto"

\* len(config["zip_files"]) for a multi_zip package, one archive otherwise
NumZips(p) == IF IsMultiZip(p) THEN 2 ELSE 1

\* number of files a complete extraction of the package writes
TotalFiles(p) == NumZips(p) * ZipFiles

\* extract_zip: "if progress_callback and index % 100 == 0"
ZipProgressEvery == 100

\* extract_multi_zip: "if progress_callback and file_index % 50 == 0"
MultiZipProgressEvery == 50

ProgressEvery(p) == IF IsMultiZip(p) THEN MultiZipProgressEvery ELSE ZipProgressEvery

\* ZipExtractor.is_package_extracted on a directory that is either absent
\* or complete
is_package_extracted(fs, p) == p \in ConfigNames /\ fs[p] = TotalFiles(p)

\* [name for name in PACKAGE_CONFIG.keys() if not is_package_extracted(name)]
packages_needed(fs) ==
    SelectSeq(PACKAGE_CONFIG, LAMBDA p : ~is_package_extracted(fs, p))

(***************************************************************************)
(* ExtractionWorker  (src/data/ui/extraction_dialog.py)                    *)
(***************************************************************************)
\* progress_callback spinning without looking at the cancelled flag
CallbackBlockedWhilePaused(paused, cancelled) == paused

\* progress_callback without its loop
CallbackNeverBlocked(paused, cancelled) == FALSE

\* progress_callback: while self.paused and not self.cancelled: sleep
CallbackBlocked(paused, cancelled) == paused /\ ~cancelled

\* progress_callback: False when cancelled, else emit progress_updated
\* and return True
CallbackResult(cancelled) == ~cancelled

Unset == "unset"

Bool(b) == IF b THEN "True" ELSE "False"

NoWorker ==
    [pc |-> "idle", cancelled |-> FALSE, paused |-> FALSE,
     to_extract |-> <<>>, index |-> 0, zip_index |-> 0, file_index |-> 0,
     results |-> [p \in ConfigNames |-> Unset], decision |-> Unset,
     completed |-> <<>>, pending |-> FALSE, progress |-> 0,
     late_progress |-> FALSE, cancel_at |-> "never",
     cancel_paused |-> FALSE, resumed_mid |-> FALSE]

NoDialog ==
    [shown |-> FALSE, closed |-> FALSE, result |-> "none", asking |-> "none",
     pause_enabled |-> TRUE, cancel_enabled |-> TRUE,
     extraction_started |-> FALSE]

ExtractIdle ==
    /\ fs_extracted = [p \in ConfigNames |-> 0]
    /\ zip_state = [p \in ConfigNames |-> "ok"]
    /\ m_pc = "idle"
    /\ dlg = NoDialog
    /\ w = NoWorker

\* QThread.isRunning()
isRunning == w.pc \notin {"idle", "finished"}

\* the process is alive and the worker thread has been started
WorkerAlive == isRunning /\ m_pc # "exit"

\* the package being extracted
CurPkg == w.to_extract[w.index + 1]

\* progress_callback passed and emitted progress_updated
Progressed(ww) ==
    [ww EXCEPT !.progress = @ + 1,
               !.late_progress = @ \/ ww.completed # <<>>]

\* extract_all_packages going on to the next package after a failure
RecordResultAndGoOn(ww, success) ==
    [ww EXCEPT !.results[ww.to_extract[ww.index + 1]] = Bool(success),
               !.index = @ + 1,
               !.zip_index = 0,
               !.file_index = 0,
               !.pc = IF ww.index + 1 < Len(ww.to_extract)
                      THEN "cb_pkg" ELSE "check"]

\* extract_all_packages: results[package_name] = success and what follows
RecordResult(ww, success) ==
    LET n == Len(ww.to_extract)
        cur == ww.to_extract[ww.index + 1]
        rest == {ww.to_extract[i] : i \in (ww.index + 2)..n}
    IN IF ~success
       THEN [ww EXCEPT !.results = [p \in ConfigNames |->
                                      IF p = cur \/ p \in rest THEN "False"
                                      ELSE @[p]],
                       !.pc = "check"]
       ELSE [ww EXCEPT !.results[cur] = "True",
                       !.index = @ + 1,
                       !.zip_index = 0,
                       !.file_index = 0,
                       !.pc = IF ww.index + 1 < n THEN "cb_pkg" ELSE "check"]

(***************************************************************************)
(* SpecCache: a CacheManager(max_size) under arbitrary call sequences      *)
(***************************************************************************)
UnitKeys == 1..NumKeys
UnitVals == 1..NumVals

InitCache ==
    /\ max_size \in 1..MaxCap
    /\ icon_cache = <<>>
    /\ inserted_at = <<>>
    /\ clock = 0
    /\ touched = {}
    /\ last = NoCall
    /\ PathIdle
    /\ ExtractIdle
    /\ PickerIdle
    /\ ManagersIdle

\* the key whose insertion is the earliest among the keys present
OldestKey(c, st) ==
    IF c = <<>> THEN None
    ELSE CHOOSE k \in CacheKeys(c) : \A j \in CacheKeys(c) : st[k] <= st[j]

\* restriction of the observation maps to the keys still present
KeepStamps(st, c) == [k \in CacheKeys(c) |-> st[k]]

UnitSet(k, v) ==
    LET evicted == CacheSetEvict(icon_cache, max_size)
        fresh == ~CacheContains(evicted, k)
    IN
    /\ clock < MaxClock
    /\ ~CacheSetRaises(icon_cache, max_size)
    /\ icon_cache' = CacheSet(icon_cache, max_size, k, v)
    /\ clock' = IF fresh THEN clock + 1 ELSE clock
    /\ inserted_at' = [j \in CacheKeys(icon_cache') |->
                         IF j \in CacheKeys(evicted) THEN inserted_at[j]
                         ELSE clock + 1]
    /\ touched' = (touched \cap CacheKeys(icon_cache')) \
                     (IF fresh THEN {k} ELSE {})
    /\ last' = [op |-> "set", key |-> k, result |-> None,
                before |-> icon_cache, arg |-> touched,
                oldest |-> OldestKey(icon_cache, inserted_at)]
    /\ UNCHANGED <<max_size, notCache>>

UnitGet(k) ==
    /\ last' = [op |-> "get", key |-> k, result |-> CacheGet(icon_cache, k),
                before |-> icon_cache, arg |-> {}, oldest |-> None]
    /\ touched' = touched \cup ({k} \cap CacheKeys(icon_cache))
    /\ UNCHANGED <<icon_cache, max_size, inserted_at, clock, notCache>>

UnitContains(k) ==
    /\ last' = [op |-> "contains", key |-> k,
                result |-> CacheContains(icon_cache, k),
                before |-> icon_cache, arg |-> {}, oldest |-> None]
    /\ touched' = touched \cup ({k} \cap CacheKeys(icon_cache))
    /\ UNCHANGED <<icon_cache, max_size, inserted_at, clock, notCache>>

UnitSize ==
    /\ last' = [op |-> "size", key |-> None, result |-> CacheSize(icon_cache),
                before |-> icon_cache, arg |-> {}, oldest |-> None]
    /\ UNCHANGED <<icon_cache, max_size, inserted_at, clock, touched, notCache>>

\* clear(filter_fn): the filter is any predicate on keys, given by the set
\* of keys it accepts
UnitClearFilter(S) ==
    /\ icon_cache' = CacheClearFilter(icon_cache, S)
    /\ inserted_at' = KeepStamps(inserted_at, icon_cache')
    /\ touched' = touched \cap CacheKeys(icon_cache')
    /\ last' = [op |-> "clear_filter", key |-> None, result |-> None,
                before |-> icon_cache, arg |-> S, oldest |-> None]
    /\ UNCHANGED <<max_size, clock, notCache>>

UnitClearAll ==
    /\ icon_cache' = CacheClearAll(icon_cache)
    /\ inserted_at' = KeepStamps(inserted_at, icon_cache')
    /\ touched' = touched \cap CacheKeys(icon_cache')
    /\ last' = [op |-> "clear", key |-> None, result |-> None,
                before |-> icon_cache, arg |-> {}, oldest |-> None]
    /\ UNCHANGED <<max_size, clock, notCache>>

NextCache ==
    \/ \E k \in UnitKeys, v \in UnitVals : UnitSet(k, v)
    \/ \E k \in UnitKeys : UnitGet(k)
    \/ \E k \in UnitKeys : UnitContains(k)
    \/ UnitSize
    \/ \E S \in SUBSET UnitKeys : UnitClearFilter(S)
    \/ UnitClearAll

SpecCache == InitCache /\ [][NextCache]_vars

\* CacheManager.__init__ with any max_size from -MaxBelow to MaxCap: the
\* constructor stores the argument as it is
InitCacheAny ==
    /\ max_size \in (0 - MaxBelow)..MaxCap
    /\ icon_cache = <<>>
    /\ inserted_at = <<>>
    /\ clock = 0
    /\ touched = {}
    /\ last = NoCall
    /\ PathIdle
    /\ ExtractIdle
    /\ PickerIdle
    /\ ManagersIdle

\* CacheManager.set when next(iter(self.icon_cache)) raises StopIteration:
\* the dict is empty and max_size is not positive
UnitSetRaises(k, v) ==
    /\ CacheSetRaises(icon_cache, max_size)
    /\ last' = [op |-> "set", key |-> k, result |-> "StopIteration",
                before |-> icon_cache, arg |-> touched, oldest |-> None]
    /\ UNCHANGED <<icon_cache, max_size, inserted_at, clock, touched, notCache>>

NextCacheAny ==
    \/ NextCache
    \/ \E k \in UnitKeys, v \in UnitVals : UnitSetRaises(k, v)

SpecCacheAny == InitCacheAny /\ [][NextCacheAny]_vars

(***************************************************************************)
(* Claims about CacheManager, checked under SpecCache                      *)
(***************************************************************************)
\* the last call was set(key, _) with a key not in the dict and the dict
\* holding max_size entries
SetNewAtCapacity ==
    /\ last.op = "set"
    /\ ~CacheContains(last.before, last.key)
    /\ Len(last.before) = max_size

CacheEntries(c) == {c[i] : i \in 1..Len(c)}

\* C2: after any sequence of set, get, clear, size and contains calls the
\* number of cached entries is at most max_size.
C2_SizeBounded == CacheSize(icon_cache) <= max_size

\* a set of a new key has just been made on a full cache, and the cache is
\* still exactly full
C2_Witness == SetNewAtCapacity /\ CacheSize(icon_cache) = max_size

\* C3: a set of a new key on a cache holding max_size entries removes exactly
\* one entry, the one whose key was inserted earliest among those present,
\* whatever get/contains calls were made in between; get and contains leave
\* the dict, and so the next victim, as they found it.
C3_FifoEviction ==
    /\ SetNewAtCapacity =>
          /\ CacheKeys(last.before) \ CacheKeys(icon_cache) = {last.oldest}
          /\ \A e \in CacheEntries(last.before) :
                e.key # last.oldest => e \in CacheEntries(icon_cache)
          /\ CacheContains(icon_cache, last.key)
          /\ CacheSize(icon_cache) = max_size
    /\ last.op \in {"get", "contains"} => icon_cache = last.before

\* a new key evicted the earliest inserted key although that key had been
\* read since, and a later key was there to be chosen instead
C3_Witness ==
    /\ SetNewAtCapacity
    /\ Len(last.before) >= 2
    /\ last.oldest \in last.arg
    /\ ~CacheContains(icon_cache, last.oldest)

\* C4: clear(filter_fn) removes exactly the entries whose key satisfies
\* filter_fn, every other entry keeping its value and its place relative to
\* the others; clear() without a filter empties the cache.
C4_ClearFrame ==
    /\ last.op = "clear_filter" =>
          icon_cache = SelectSeq(last.before, LAMBDA e : e.key \notin last.arg)
    /\ last.op = "clear" => icon_cache = <<>>

\* a filtered clear removed an entry from between two entries it kept
C4_Witness ==
    /\ last.op = "clear_filter"
    /\ Len(last.before) = 3
    /\ last.before[2].key \in last.arg
    /\ icon_cache = <<last.before[1], last.before[3]>>

(***************************************************************************)
(* SpecPath                                                                *)
(***************************************************************************)
InitPath ==
    /\ path_call \in PathArgs
    /\ path_result = NoPathResult
    /\ CacheIdle
    /\ ExtractIdle
    /\ PickerIdle
    /\ ManagersIdle

CallGetPackageFolder ==
    /\ ~path_result.returned
    /\ path_result' = [returned |-> TRUE,
                       path |-> get_package_folder(path_call.package_name,
                                    path_call.color_mode, path_call.format_type,
                                    path_call.size)]
    /\ UNCHANGED <<path_call, notPath>>

NextPath == CallGetPackageFolder

SpecPath == InitPath /\ [][NextPath]_vars

RECURSIVE ClosestFrom(_, _, _)
\* the member of the list sizes closest to want, the earlier (smaller) one
\* on a tie; best is the closest so far
ClosestFrom(sizes, want, best) ==
    IF sizes = <<>> THEN best
    ELSE LET d(x) == IF x >= want THEN x - want ELSE want - x
         IN ClosestFrom(Tail(sizes), want,
                        IF d(Head(sizes)) < d(best) THEN Head(sizes) ELSE best)

ClosestSize(sizes, want) == ClosestFrom(Tail(sizes), want, Head(sizes))

\* the call asks a package that declares its sizes for PNG files in a size
\* the package has no folder for
NoExactFolder ==
    /\ path_call.package_name \in PackageNames
    /\ AvailableSizes(path_call.package_name) # <<>>
    /\ path_call.format_type = "png"
    /\ path_call.size # NoSize
    /\ path_call.size > 0
    /\ \A i \in DOMAIN AvailableSizes(path_call.package_name) :
          AvailableSizes(path_call.package_name)[i] # path_call.size

\* C10: for a package that declares its supported sizes and a requested size
\* it has no folder for, the PNG folder returned is the folder of the closest
\* supported size (the smaller one on a tie): it equals what the same call
\* returns for that supported size.
C10_ClosestSupportedSize ==
    (path_result.returned /\ NoExactFolder) =>
        path_result.path =
            get_package_folder(path_call.package_name, path_call.color_mode,
                path_call.format_type,
                ClosestSize(AvailableSizes(path_call.package_name), path_call.size))

(***************************************************************************)
(* SpecExtract: main(), the ExtractionDialog and the ExtractionWorker      *)
(***************************************************************************)
\* the file system at launch: each package absent or complete, at most one
\* package with a missing or unreadable archive.  The run is either main()
\* ("start") or an ExtractionWorker created and driven through its own
\* methods ("worker")
InitExtract ==
    /\ fs_extracted \in [ConfigNames -> {0, ZipFiles, 2 * ZipFiles}]
    /\ \A p \in ConfigNames : fs_extracted[p] \in {0, TotalFiles(p)}
    /\ zip_state \in [ConfigNames -> {"ok", "missing", "corrupt"}]
    /\ Cardinality({p \in ConfigNames : zip_state[p] # "ok"}) <= 1
    /\ m_pc \in {"start", "worker"}
    /\ dlg = NoDialog
    /\ w = NoWorker
    /\ CacheIdle
    /\ PathIdle
    /\ PickerIdle
    /\ ManagersIdle

\* check_and_extract_packages up to dialog.exec_(), and main() when no
\* package needs extraction
check_and_extract_packages ==
    /\ m_pc = "start"
    /\ IF packages_needed(fs_extracted) = <<>>
       THEN /\ m_pc' = "window"
            /\ UNCHANGED <<dlg, w>>
       ELSE /\ m_pc' = "exec"
            /\ dlg' = [dlg EXCEPT !.shown = TRUE, !.extraction_started = TRUE]
            /\ w' = [w EXCEPT !.pc = "run"]
    /\ UNCHANGED <<fs_extracted, zip_state, notExtract>>

\* dialog.exec_() returns; check_and_extract_packages returns result == 1;
\* main() exits or creates the main window
exec_returns ==
    /\ m_pc = "exec"
    /\ dlg.closed
    /\ dlg.asking = "none"
    /\ m_pc' = IF dlg.result = "accepted" THEN "window" ELSE "exit"
    /\ UNCHANGED <<fs_extracted, zip_state, dlg, w, notExtract>>

\* the dialog takes clicks: it is open and no message box is in front of it
DialogInput == m_pc = "exec" /\ ~dlg.closed /\ dlg.asking = "none"

\* ExtractionWorker.cancel, with the worker's position noted
Cancelled(ww) ==
    [ww EXCEPT !.cancelled = TRUE,
               !.cancel_at = IF @ = "never" THEN ww.pc ELSE @,
               !.cancel_paused = IF ww.cancel_at = "never" THEN ww.paused ELSE @]

\* the worker waits in the loop of progress_callback
WaitingAt(ww, pc) == ww.pc = pc /\ CallbackBlocked(ww.paused, ww.cancelled)

\* ExtractionWorker.resume, with a note of a worker released from the
\* checkpoint that follows a file
resume(ww) ==
    [ww EXCEPT !.paused = FALSE,
               !.resumed_mid = @ \/ WaitingAt(ww, "cb_file")]

\* ExtractionDialog.toggle_pause_resume
toggle_pause_resume ==
    /\ DialogInput
    /\ dlg.pause_enabled
    /\ w' = IF ~isRunning THEN w
            ELSE IF w.paused THEN resume(w)
            ELSE [w EXCEPT !.paused = TRUE]
    /\ UNCHANGED <<fs_extracted, zip_state, m_pc, dlg, notExtract>>

\* ExtractionDialog.cancel_extraction up to the confirmation box
cancel_extraction ==
    /\ DialogInput
    /\ dlg.cancel_enabled
    /\ dlg' = IF ~isRunning
              THEN [dlg EXCEPT !.result = "rejected", !.closed = TRUE]
              ELSE [dlg EXCEPT !.asking = "cancel"]
    /\ UNCHANGED <<fs_extracted, zip_state, m_pc, w, notExtract>>

\* ExtractionDialog.cancel_extraction after the user answered
cancel_extraction_reply(yes) ==
    /\ m_pc = "exec"
    /\ dlg.asking = "cancel"
    /\ IF yes
       THEN /\ w' = Cancelled(w)
            /\ dlg' = [dlg EXCEPT !.asking = "none", !.pause_enabled = FALSE,
                                  !.cancel_enabled = FALSE]
       ELSE /\ dlg' = [dlg EXCEPT !.asking = "none"]
            /\ UNCHANGED w
    /\ UNCHANGED <<fs_extracted, zip_state, m_pc, notExtract>>

\* ExtractionDialog.closeEvent up to the confirmation box
closeEvent ==
    /\ DialogInput
    /\ dlg' = IF isRunning
              THEN [dlg EXCEPT !.asking = "close"]
              ELSE [dlg EXCEPT !.closed = TRUE]
    /\ UNCHANGED <<fs_extracted, zip_state, m_pc, w, notExtract>>

\* ExtractionDialog.closeEvent after the user answered: Yes cancels and
\* enters worker.wait(1000)
closeEvent_reply(yes) ==
    /\ m_pc = "exec"
    /\ dlg.asking = "close"
    /\ IF yes
       THEN /\ w' = Cancelled(w)
            /\ dlg' = [dlg EXCEPT !.asking = "wait"]
       ELSE /\ dlg' = [dlg EXCEPT !.asking = "none"]
            /\ UNCHANGED w
    /\ UNCHANGED <<fs_extracted, zip_state, m_pc, notExtract>>

\* ExtractionDialog.closeEvent: worker.wait(1000) returns, because the
\* thread finished or because the second elapsed; event.accept()
closeEvent_waited ==
    /\ m_pc = "exec"
    /\ dlg.asking = "wait"
    /\ dlg' = [dlg EXCEPT !.asking = "none", !.closed = TRUE]
    /\ UNCHANGED <<fs_extracted, zip_state, m_pc, w, notExtract>>

\* ExtractionDialog.on_extraction_completed, run by the event loop of the
\* dialog or of a message box when the queued signal is delivered
on_extraction_completed ==
    /\ m_pc = "exec"
    /\ dlg.asking # "wait"
    /\ w.pending
    /\ w' = [w EXCEPT !.pending = FALSE]
    /\ dlg' = [dlg EXCEPT !.extraction_started = FALSE,
                          !.pause_enabled = FALSE,
                          !.cancel_enabled = FALSE,
                          !.result = "accepted",
                          !.closed = TRUE]
    /\ UNCHANGED <<fs_extracted, zip_state, m_pc, notExtract>>

\* QThread.start on a worker of its own
worker_start ==
    /\ m_pc = "worker"
    /\ w.pc = "idle"
    /\ w' = [w EXCEPT !.pc = "run"]
    /\ UNCHANGED <<fs_extracted, zip_state, m_pc, dlg, notExtract>>

\* ExtractionWorker.cancel
worker_cancel ==
    /\ m_pc = "worker"
    /\ w' = Cancelled(w)
    /\ UNCHANGED <<fs_extracted, zip_state, m_pc, dlg, notExtract>>

\* ExtractionWorker.pause
worker_pause ==
    /\ m_pc = "worker"
    /\ w' = [w EXCEPT !.paused = TRUE]
    /\ UNCHANGED <<fs_extracted, zip_state, m_pc, dlg, notExtract>>

\* ExtractionWorker.resume
worker_resume ==
    /\ m_pc = "worker"
    /\ w' = resume(w)
    /\ UNCHANGED <<fs_extracted, zip_state, m_pc, dlg, notExtract>>

\* ExtractionWorker.run / extract_all_packages: the packages to extract
worker_scan ==
    /\ WorkerAlive
    /\ w.pc = "run"
    /\ LET todo == packages_needed(fs_extracted) IN
       w' = [w EXCEPT !.to_extract = todo,
                      !.index = 0,
                      !.pc = IF todo = <<>> THEN "cb_none" ELSE "cb_pkg"]
    /\ UNCHANGED <<fs_extracted, zip_state, m_pc, dlg, notExtract>>

\* extract_all_packages: nothing to extract
worker_nothing_to_extract ==
    /\ WorkerAlive
    /\ w.pc = "cb_none"
    /\ ~CallbackBlocked(w.paused, w.cancelled)
    /\ LET ww == IF CallbackResult(w.cancelled) THEN Progressed(w) ELSE w IN
       w' = [ww EXCEPT !.results = [p \in ConfigNames |-> "True"],
                       !.pc = "check"]
    /\ UNCHANGED <<fs_extracted, zip_state, m_pc, dlg, notExtract>>

\* extract_all_packages: the checkpoint before each package
worker_package_checkpoint ==
    /\ WorkerAlive
    /\ w.pc = "cb_pkg"
    /\ ~CallbackBlocked(w.paused, w.cancelled)
    /\ w' = IF CallbackResult(w.cancelled)
            THEN [Progressed(w) EXCEPT !.pc = "open"]
            ELSE [w EXCEPT !.results =
                      [p \in ConfigNames |->
                         IF \E i \in (w.index + 1)..Len(w.to_extract) :
                               w.to_extract[i] = p
                         THEN "False" ELSE @[p]],
                           !.pc = "check"]
    /\ UNCHANGED <<fs_extracted, zip_state, m_pc, dlg, notExtract>>

\* extract_package / extract_zip / extract_multi_zip: find and open the
\* archive
worker_open_zip ==
    /\ WorkerAlive
    /\ w.pc = "open"
    /\ w' = [w EXCEPT !.pc =
                IF zip_state[CurPkg] = "missing" THEN "cb_err"
                ELSE IF IsMultiZip(CurPkg) THEN "cb_zip"
                ELSE IF zip_state[CurPkg] = "corrupt" THEN "cb_err"
                ELSE "cb_zip"]
    /\ UNCHANGED <<fs_extracted, zip_state, m_pc, dlg, notExtract>>

\* extract_zip / extract_multi_zip: the checkpoint before the files of an
\* archive
worker_zip_checkpoint ==
    /\ WorkerAlive
    /\ w.pc = "cb_zip"
    /\ ~CallbackBlocked(w.paused, w.cancelled)
    /\ w' = IF ~CallbackResult(w.cancelled)
            THEN RecordResult(w, FALSE)
            ELSE [Progressed(w) EXCEPT !.file_index = 0,
                     !.pc = IF IsMultiZip(CurPkg) /\ zip_state[CurPkg] = "corrupt"
                            THEN "cb_err" ELSE "file"]
    /\ UNCHANGED <<fs_extracted, zip_state, m_pc, dlg, notExtract>>

\* the worker moves to the next file, the next archive, or the end of the
\* package
Advance(ww) ==
    LET cur == ww.to_extract[ww.index + 1] IN
    IF ww.file_index + 1 < ZipFiles
    THEN [ww EXCEPT !.file_index = @ + 1, !.pc = "file"]
    ELSE IF IsMultiZip(cur) /\ ww.zip_index + 1 < NumZips(cur)
    THEN [ww EXCEPT !.zip_index = @ + 1, !.file_index = 0, !.pc = "open"]
    ELSE [ww EXCEPT !.pc = "cb_done"]

\* zip_ref.extract(file, target_dir)
worker_extract_file ==
    /\ WorkerAlive
    /\ w.pc = "file"
    /\ fs_extracted' = [fs_extracted EXCEPT ![CurPkg] = @ + 1]
    /\ w' = IF w.file_index % ProgressEvery(CurPkg) = 0
            THEN [w EXCEPT !.pc = "cb_file"]
            ELSE Advance(w)
    /\ UNCHANGED <<zip_state, m_pc, dlg, notExtract>>

\* extract_zip / extract_multi_zip: the periodic checkpoint
worker_file_checkpoint ==
    /\ WorkerAlive
    /\ w.pc = "cb_file"
    /\ ~CallbackBlocked(w.paused, w.cancelled)
    /\ w' = IF ~CallbackResult(w.cancelled)
            THEN RecordResult(w, FALSE)
            ELSE Advance(Progressed(w))
    /\ UNCHANGED <<fs_extracted, zip_state, m_pc, dlg, notExtract>>

\* extract_zip / extract_multi_zip: the last callback, its result unused
worker_package_done ==
    /\ WorkerAlive
    /\ w.pc = "cb_done"
    /\ ~CallbackBlocked(w.paused, w.cancelled)
    /\ w' = RecordResult(IF CallbackResult(w.cancelled) THEN Progressed(w) ELSE w,
                         TRUE)
    /\ UNCHANGED <<fs_extracted, zip_state, m_pc, dlg, notExtract>>

\* extract_zip / extract_multi_zip: the ERROR callback, its result unused
worker_package_error ==
    /\ WorkerAlive
    /\ w.pc = "cb_err"
    /\ ~CallbackBlocked(w.paused, w.cancelled)
    /\ w' = RecordResult(IF CallbackResult(w.cancelled) THEN Progressed(w) ELSE w,
                         FALSE)
    /\ UNCHANGED <<fs_extracted, zip_state, m_pc, dlg, notExtract>>

\* ExtractionWorker.run deciding on the results alone
worker_check_unflagged ==
    /\ WorkerAlive
    /\ w.pc = "check"
    /\ w' = [w EXCEPT !.decision =
                IF \A p \in ConfigNames : w.results[p] # "False"
                THEN "success" ELSE "failed",
                      !.pc = "emit"]
    /\ UNCHANGED <<fs_extracted, zip_state, m_pc, dlg, notExtract>>

\* ExtractionWorker.run: if self.cancelled / all(results.values())
worker_check ==
    /\ WorkerAlive
    /\ w.pc = "check"
    /\ w' = [w EXCEPT !.decision =
                IF w.cancelled THEN "cancelled"
                ELSE IF \A p \in ConfigNames : w.results[p] # "False"
                THEN "success" ELSE "failed",
                      !.pc = "emit"]
    /\ UNCHANGED <<fs_extracted, zip_state, m_pc, dlg, notExtract>>

\* ExtractionWorker.run: self.extraction_completed.emit(...)
worker_emit ==
    /\ WorkerAlive
    /\ w.pc = "emit"
    /\ w' = [w EXCEPT !.completed = Append(@, w.decision = "success"),
                      !.pending = TRUE,
                      !.pc = "finished"]
    /\ UNCHANGED <<fs_extracted, zip_state, m_pc, dlg, notExtract>>

WorkerNext ==
    \/ worker_scan
    \/ worker_nothing_to_extract
    \/ worker_package_checkpoint
    \/ worker_open_zip
    \/ worker_zip_checkpoint
    \/ worker_extract_file
    \/ worker_file_checkpoint
    \/ worker_package_done
    \/ worker_package_error
    \/ worker_check
    \/ worker_emit

NextExtract ==
    \/ check_and_extract_packages
    \/ exec_returns
    \/ toggle_pause_resume
    \/ cancel_extraction
    \/ \E yes \in BOOLEAN : cancel_extraction_reply(yes)
    \/ closeEvent
    \/ \E yes \in BOOLEAN : closeEvent_reply(yes)
    \/ closeEvent_waited
    \/ on_extraction_completed
    \/ worker_start
    \/ worker_cancel
    \/ worker_pause
    \/ worker_resume
    \/ worker_scan
    \/ worker_nothing_to_extract
    \/ worker_package_checkpoint
    \/ worker_open_zip
    \/ worker_zip_checkpoint
    \/ worker_extract_file
    \/ worker_file_checkpoint
    \/ worker_package_done
    \/ worker_package_error
    \/ worker_check
    \/ worker_emit

SpecExtract == InitExtract /\ [][NextExtract]_vars

\* the worker thread is scheduled as long as it has a step to take
FairSpecExtract == SpecExtract /\ WF_vars(WorkerNext)

(***************************************************************************)
(* Claims about the first-launch extraction                                *)
(***************************************************************************)
AllExtracted == \A p \in ConfigNames : fs_extracted[p] = TotalFiles(p)

\* C8: the main window is created only after the extraction completed
\* successfully: when main() goes on to create the window every package is
\* extracted, and the worker, if one ran, reported success.
C8_WindowOnlyAfterSuccess ==
    m_pc = "window" =>
        /\ AllExtracted
        /\ w.completed \in {<<>>, <<TRUE>>}

\* positions of the worker from which its final test of the cancelled flag
\* is still ahead
BeforeFinalCheck ==
    {"run", "cb_none", "cb_pkg", "open", "cb_zip", "file", "cb_file",
     "cb_done", "cb_err", "check"}

\* the worker has stopped and its only extraction_completed carried
\* success=False
StoppedWithFailure == w.pc = "finished" /\ w.completed = <<FALSE>>

\* C9 (as stated): once cancel() was called on a running worker, the worker,
\* when it has stopped, has emitted extraction_completed with success=False.
C9_CancelWhileRunning ==
    (w.pc = "finished" /\ w.cancel_at \notin {"never", "idle", "finished"})
        => w.completed = <<FALSE>>

\* C9 (amended): once cancel() has been called on a worker that has not yet
\* made its final test of the cancelled flag, the worker, scheduled fairly,
\* eventually stops and emits extraction_completed with success=False,
\* paused or not, unless the process exits first.
C9_CancelStopsWorker ==
    (w.cancelled /\ w.cancel_at \in BeforeFinalCheck)
        ~> (StoppedWithFailure \/ m_pc = "exit")

\* cancel() reached a worker paused at a file checkpoint; it was never
\* resumed, stopped, and reported failure
C9_Witness ==
    /\ StoppedWithFailure
    /\ w.cancel_at = "cb_file"
    /\ w.cancel_paused
    /\ w.paused
    /\ m_pc # "exit"

\* C22: a run of the worker emits extraction_completed once, when it ends,
\* and no progress_updated after it; it emits success=True only when
\* cancel() had not been called by the time run tested the flag and no
\* package was reported False.
C22_CompletedOnceAndLast ==
    /\ Len(w.completed) <= 1
    /\ (w.pc = "finished") <=> (Len(w.completed) = 1)
    /\ ~w.late_progress
    /\ w.completed = <<TRUE>> =>
          /\ w.cancel_at \in {"never", "emit", "finished"}
          /\ \A p \in ConfigNames : w.results[p] \in {"True", Unset}

\* the worker extracted a package, tested the flag, was cancelled and
\* then emitted success=True
C22_SuccessEmittedAfterLateCancel ==
    /\ w.pc = "finished"
    /\ w.completed = <<TRUE>>
    /\ w.cancel_at = "emit"
    /\ w.progress > 0
    /\ w.to_extract # <<>>

\* the positions of the worker at a call of progress_callback
Checkpoints == {"cb_none", "cb_pkg", "cb_zip", "cb_file", "cb_done", "cb_err"}

\* number of files of the current package the worker has extracted, by its
\* position
Written(ww) ==
    ww.zip_index * ZipFiles +
        (CASE ww.pc = "file" -> ww.file_index
           [] ww.pc = "cb_file" -> ww.file_index + 1
           [] ww.pc = "cb_done" -> ZipFiles
           [] OTHER -> 0)

\* C23: a worker at a checkpoint with paused set and cancel not requested
\* stays there, emits no progress_updated and extracts no file as long as
\* neither resume() nor cancel() is called; paused and resumed or not, the
\* files of the current package on disk are those before the worker's
\* position, each extracted once, and a package reported True is complete.
C23_PausedWorkerWaits ==
    /\ [][(w.paused /\ ~w.cancelled /\ w.pc \in Checkpoints
            /\ w'.paused /\ ~w'.cancelled)
          => (w'.pc = w.pc /\ w'.progress = w.progress
              /\ fs_extracted' = fs_extracted)]_vars
    /\ [](w.pc \in {"open", "cb_zip", "file", "cb_file", "cb_done"}
            => fs_extracted[CurPkg] = Written(w))
    /\ [](\A p \in ConfigNames :
            w.results[p] = "True" => fs_extracted[p] = TotalFiles(p))

\* a worker that waited at the checkpoint after a file was resumed and
\* finished with every package extracted
C23_ResumedAndFinished ==
    /\ w.pc = "finished"
    /\ w.completed = <<TRUE>>
    /\ w.resumed_mid
    /\ w.to_extract # <<>>
    /\ AllExtracted

\* extract_all_packages has returned
Returned == w.pc \in {"check", "emit", "finished"}

\* the packages extract_all_packages found not extracted, as a set
ToExtract == {w.to_extract[i] : i \in DOMAIN w.to_extract}

\* C24: the packages to extract are the not-yet-extracted ones in the order
\* of PACKAGE_CONFIG; a file is written only for the package in turn, after
\* every earlier one was reported True and before any later one is
\* touched; once extract_all_packages has returned, every package after
\* the first one reported False is reported False and has no file
\* extracted; with nothing to extract every package is reported True and
\* no file is written.
C24_StopsAtFirstFailure ==
    /\ [](w.to_extract = SelectSeq(PACKAGE_CONFIG, LAMBDA p : p \in ToExtract))
    /\ [][fs_extracted' # fs_extracted =>
            /\ w.to_extract # <<>>
            /\ \A p \in ConfigNames \ {CurPkg} :
                  fs_extracted'[p] = fs_extracted[p]
            /\ \A i \in 1..w.index : w.results[w.to_extract[i]] = "True"
            /\ \A i \in (w.index + 2)..Len(w.to_extract) :
                  /\ fs_extracted[w.to_extract[i]] = 0
                  /\ w.results[w.to_extract[i]] = Unset]_vars
    /\ [](Returned /\ w.to_extract # <<>> =>
            /\ \A p \in ConfigNames : (w.results[p] = Unset) <=> (p \notin ToExtract)
            /\ \A i, j \in DOMAIN w.to_extract :
                  (i < j /\ w.results[w.to_extract[i]] = "False") =>
                     /\ w.results[w.to_extract[j]] = "False"
                     /\ fs_extracted[w.to_extract[j]] = 0)
    /\ [](Returned /\ w.to_extract = <<>> =>
            /\ \A p \in ConfigNames : w.results[p] = "True"
            /\ AllExtracted)

\* of three packages to extract the first was extracted, the second failed
\* on its archive and the third was left alone, with no cancel() at all
C24_ThirdPackageNotAttempted ==
    /\ w.pc = "finished"
    /\ ~w.cancelled
    /\ Len(w.to_extract) = 3
    /\ w.results[w.to_extract[1]] = "True"
    /\ w.results[w.to_extract[2]] = "False"
    /\ w.results[w.to_extract[3]] = "False"
    /\ fs_extracted[w.to_extract[1]] = TotalFiles(w.to_extract[1])
    /\ fs_extracted[w.to_extract[3]] = 0

(***************************************************************************)
(* EmojiPicker  (src/data/ui/mainwindow_dialog.py)                         *)
(*                                                                         *)
(* A folder is named by its key in PathManager.build_all_paths, which      *)
(* gives distinct keys distinct directories; the custom folder is named    *)
(* "custom".  A glyph is named by the hex code of its code point.          *)
(***************************************************************************)
\* CacheManager(max_size=1000)
PickerCacheSize == 1000

\* the sizes the user enters in the size field
EmojiSizes == {32, 48}

ColorModes == {"color", "black"}

\* available_sizes of update_emoji_folder
available_sizes == <<16, 32, 48, 64, 72, 96, 128, 512>>

\* f"emojitwo_{color_mode}_{closest_size}_png"
emojitwo_png_key(color_mode, size) ==
    "emojitwo_" \o color_mode \o "_" \o ToString(size) \o "_png"

EmojiTwoSized == {<<c, available_sizes[i]>> : c \in ColorModes, i \in DOMAIN available_sizes}

\* the keys of the dict build_all_paths returns
PathKeys ==
    {"color_72_png", "black_72_png", "color_618_png", "black_618_png", "color_svg",
     "black_svg", "openmoji_color_ttf_folder", "openmoji_black_ttf_folder",
     "google_noto_color_ttf", "google_noto_black_ttf", "twemoji_72_png", "twemoji_svg",
     "emojitwo_color_default_png", "emojitwo_black_default_png", "emojitwo_color_svg",
     "emojitwo_black_svg"}
    \cup {emojitwo_png_key(p[1], p[2]) : p \in EmojiTwoSized}

\* PathManager.build_all_paths
build_all_paths ==
    [k \in PathKeys |->
        CASE k = "color_72_png" -> get_openmoji_path("color", "png", 72)
          [] k = "black_72_png" -> get_openmoji_path("black", "png", 72)
          [] k = "color_618_png" -> get_openmoji_path("color", "png", 618)
          [] k = "black_618_png" -> get_openmoji_path("black", "png", 618)
          [] k = "color_svg" -> get_openmoji_path("color", "svg", NoSize)
          [] k = "black_svg" -> get_openmoji_path("black", "svg", NoSize)
          [] k = "openmoji_color_ttf_folder" -> get_openmoji_path("color", "ttf", NoSize)
          [] k = "openmoji_black_ttf_folder" -> get_openmoji_path("black", "ttf", NoSize)
          [] k = "google_noto_color_ttf" -> get_noto_path("color")
          [] k = "google_noto_black_ttf" -> get_noto_path("black")
          [] k = "twemoji_72_png" -> get_twemoji_path("png")
          [] k = "twemoji_svg" -> get_twemoji_path("svg")
          [] k = "emojitwo_color_default_png" -> get_emojitwo_path("color", "png", NoSize)
          [] k = "emojitwo_black_default_png" -> get_emojitwo_path("black", "png", NoSize)
          [] k = "emojitwo_color_svg" -> get_emojitwo_path("color", "svg", NoSize)
          [] k = "emojitwo_black_svg" -> get_emojitwo_path("black", "svg", NoSize)
          [] OTHER ->
                LET p == CHOOSE q \in EmojiTwoSized : emojitwo_png_key(q[1], q[2]) = k
                IN get_emojitwo_path(p[1], "png", p[2])]

KeyError == "KeyError"

\* PathManager.get_path: raises KeyError for a key that is not in the table
get_path(key) == IF key \in PathKeys THEN key ELSE KeyError

\* emoji_packages["Custom"]["folder"]
CustomFolder == "custom"

\* the directory a folder name stands for
FolderPath(ui, folder) ==
    IF folder = CustomFolder THEN get_custom_path ELSE ui.emoji_folders[folder]

\* os.path.basename(path)
basename(path) == path[Len(path)].text

\* re.match(r'^\d+$', os.path.basename(self.emoji_folder))
BasenameIsDigit(ui, folder) == basename(FolderPath(ui, folder)) = "{n}"

\* 'svg' in path: the directory names of the packages that hold the letters
PathHasSvg(path) == \E i \in DOMAIN path : path[i].text \in {"svg", "svg_bw"}

\* 'svg' in emoji_folder
HasSvg(ui, folder) == PathHasSvg(FolderPath(ui, folder))

\* a file of a folder: its name and the glyph its name decodes to ("" when
\* the name is not a list of hex code points)
GlyphFile(stem, ext, emoji) == [name |-> stem \o ext, emoji |-> emoji]

ImageFiles(codes, upper, ext) ==
    {GlyphFile(IF upper THEN c ELSE Lower(c), ext, c) : c \in codes}

\* the files of an extracted package folder.  OpenMoji names its files in
\* upper case.  EmojiTwo has no file for 1F94E, and a file for 1F3FD only in
\* its colour default and colour SVG folders.
PackageFiles(pkgdir, folder, ext) ==
    ImageFiles(CASE pkgdir \in {"OpenMoji", "Twemoji"} -> {"26BD", "1F3FD", "1F94E"}
                 [] pkgdir = "Emojitwo" ->
                        IF folder \in {"emojitwo_color_default_png", "emojitwo_color_svg"}
                        THEN {"26BD", "1F3FD"} ELSE {"26BD"}
                 [] OTHER -> {},
               pkgdir = "OpenMoji", ext)

\* os.listdir(folder)
listdir(ui, folder) ==
    IF folder = CustomFolder
    THEN {GlyphFile("cat", ".png", ""), GlyphFile("dog", ".svg", "")}
    ELSE PackageFiles(ui.emoji_folders[folder][2].text, folder,
                      IF HasSvg(ui, folder) THEN ".svg" ELSE ".png")

\* str.endswith on the file names of the model
EndsWith(name, ext) ==
    \E stem \in {"cat", "dog", "26BD", "1F3FD", "1F94E", "26bd", "1f3fd", "1f94e"} :
        name = stem \o ext

\* os.path.exists(os.path.join(folder, filename))
FileExists(ui, folder, filename) == \E f \in listdir(ui, folder) : f.name = filename

\* create_emoji_mapping: the files with the extension that name a glyph
emoji_files(files, file_extension) ==
    {[emoji |-> f.emoji, filename |-> f.name] :
        f \in {g \in files : EndsWith(g.name, file_extension) /\ g.emoji # ""}}

\* EmojiManager.create_emoji_mapping: emoji_to_filename, as the set of its items
create_emoji_mapping(ui, folder) ==
    emoji_files(listdir(ui, folder), IF HasSvg(ui, folder) THEN ".svg" ELSE ".png")

\* emoji in self.emoji_to_filename
InMapping(mapping, emoji) == \E e \in mapping : e.emoji = emoji

\* self.emoji_to_filename[emoji]
MappingGet(mapping, emoji) == (CHOOSE e \in mapping : e.emoji = emoji).filename

\* category_emoji_codes, two of its ten categories
category_emoji_codes == [activities |-> "26BD", component |-> "1F3FD"]

\* the category buttons that show a glyph, in the order of their creation
StandardCategories == <<"activities", "component">>

\* emoji_data (emoji_data.json): the glyphs of a category
emoji_data(category) ==
    IF category = "activities" THEN <<"26BD", "1F94E">>
    ELSE IF category = "component" THEN <<"1F3FD">>
    ELSE <<>>

\* the categories the user opens
ClickedCategories == {"Recent & Favorites", "activities"}

(***************************************************************************)
(* The radio buttons.  s is the state a handler works on: s.ui the window   *)
(* and its widgets, s.cache the dict of the CacheManager, s.rendered and    *)
(* s.obs the observations.                                                 *)
(***************************************************************************)
Buttons == {"color", "black", "png", "svg", "ttf", "size_72", "size_618"}

\* QRadioButton.setChecked(True) in an exclusive QButtonGroup
setChecked(ui, name) ==
    CASE name = "color" -> [ui EXCEPT !.color_checked = TRUE]
      [] name = "black" -> [ui EXCEPT !.color_checked = FALSE]
      [] name \in {"png", "svg", "ttf"} -> [ui EXCEPT !.format = name]
      [] name = "size_72" -> [ui EXCEPT !.size_72_checked = TRUE]
      [] name = "size_618" -> [ui EXCEPT !.size_72_checked = FALSE]

\* EmojiPicker.apply_radio_button_config; checked is TRUE for True and
\* FALSE for None (keep the current state)
apply_radio_button_config(ui, name, visible, enabled, checked) ==
    LET u == [ui EXCEPT !.visible[name] = visible, !.enabled[name] = enabled]
    IN IF checked THEN setChecked(u, name) ELSE u

\* PACKAGE_BUTTON_CONFIG: button, visible, enabled, checked, in dict order
PACKAGE_BUTTON_CONFIG(package_type) ==
    CASE package_type = "custom" ->
            << <<"color", FALSE, FALSE, FALSE>>, <<"black", FALSE, FALSE, FALSE>>,
               <<"size_72", FALSE, FALSE, FALSE>>, <<"size_618", FALSE, FALSE, FALSE>> >>
      [] package_type = "system_font" ->
            << <<"color", TRUE, TRUE, TRUE>>, <<"black", TRUE, FALSE, FALSE>>,
               <<"png", TRUE, FALSE, FALSE>>, <<"svg", TRUE, FALSE, FALSE>>,
               <<"ttf", TRUE, TRUE, TRUE>>, <<"size_72", TRUE, FALSE, FALSE>>,
               <<"size_618", TRUE, FALSE, FALSE>> >>
      [] package_type = "ttf_font" ->
            << <<"color", TRUE, TRUE, FALSE>>, <<"black", TRUE, TRUE, FALSE>>,
               <<"png", TRUE, FALSE, FALSE>>, <<"svg", TRUE, FALSE, FALSE>>,
               <<"ttf", TRUE, TRUE, TRUE>>, <<"size_72", TRUE, FALSE, FALSE>>,
               <<"size_618", TRUE, FALSE, FALSE>> >>
      [] OTHER -> <<>>

RECURSIVE ApplyConfigs(_, _)
\* for button_name, (visible, enabled, checked, style) in config.items():
\*     self.apply_radio_button_config(...)
ApplyConfigs(ui, cfgs) ==
    IF cfgs = <<>> THEN ui
    ELSE LET c == Head(cfgs)
         IN ApplyConfigs(apply_radio_button_config(ui, c[1], c[2], c[3], c[4]), Tail(cfgs))

\* EmojiPicker.update_size_radio_buttons_state
update_size_radio_buttons_state(ui) ==
    LET is_svg_selected == ui.format = "svg"
        is_ttf_selected == ui.format = "ttf"
        is_png_selected == ui.format = "png"
        is_twemoji == ui.current_emoji_package = "Twemoji"
        is_emojitwo == ui.current_emoji_package = "EmojiTwo"
    IN IF is_twemoji
       THEN IF is_png_selected
            THEN [ui EXCEPT !.enabled.size_72 = TRUE, !.enabled.size_618 = FALSE,
                            !.size_72_checked = TRUE]
            ELSE [ui EXCEPT !.enabled.size_72 = FALSE, !.enabled.size_618 = FALSE]
       ELSE [ui EXCEPT
               !.enabled.size_72 = ~is_svg_selected /\ ~is_ttf_selected /\ ~is_emojitwo,
               !.enabled.size_618 = ~is_svg_selected /\ ~is_ttf_selected /\ ~is_twemoji
                                     /\ ~is_emojitwo]

\* EmojiPicker.detect_custom_emoji_formats
detect_custom_emoji_formats(ui) ==
    [ui EXCEPT !.custom_emoji_formats_available =
        [fmt \in {"png", "svg", "ttf"} |->
            \E f \in listdir(ui, CustomFolder) : EndsWith(f.name, "." \o fmt)]]

\* EmojiPicker.update_radio_buttons_for_package
update_radio_buttons_for_package(ui) ==
    LET package_type == PackageType(ui.current_emoji_package)
        available == ui.custom_emoji_formats_available
    IN IF package_type \in {"system_font", "ttf_font"}
       THEN ApplyConfigs(ui, PACKAGE_BUTTON_CONFIG(package_type))
       ELSE IF package_type = "custom"
       THEN LET u1 == ApplyConfigs(ui, PACKAGE_BUTTON_CONFIG(package_type))
                current_format == u1.format
                u2 == ApplyConfigs(u1, << <<"png", TRUE, available["png"], FALSE>>,
                                          <<"svg", TRUE, available["svg"], FALSE>>,
                                          <<"ttf", TRUE, available["ttf"], FALSE>> >>)
            IN IF available[current_format]
               THEN apply_radio_button_config(u2, current_format, TRUE, TRUE, TRUE)
               ELSE IF available["png"]
               THEN apply_radio_button_config(u2, "png", TRUE, TRUE, TRUE)
               ELSE IF available["svg"]
               THEN apply_radio_button_config(u2, "svg", TRUE, TRUE, TRUE)
               ELSE IF available["ttf"]
               THEN apply_radio_button_config(u2, "ttf", TRUE, TRUE, TRUE)
               ELSE u2
       ELSE LET u1 == ApplyConfigs(ui, << <<"color", TRUE, TRUE, FALSE>>,
                                          <<"black", TRUE, TRUE, FALSE>> >>)
            IN IF ui.current_emoji_package = "Twemoji"
               THEN update_size_radio_buttons_state(
                        ApplyConfigs(u1, << <<"color", TRUE, TRUE, TRUE>>,
                                            <<"black", TRUE, FALSE, FALSE>>,
                                            <<"png", TRUE, TRUE, FALSE>>,
                                            <<"svg", TRUE, TRUE, FALSE>>,
                                            <<"ttf", TRUE, FALSE, FALSE>>,
                                            <<"size_618", TRUE, FALSE, FALSE>> >>))
               ELSE IF ui.current_emoji_package = "EmojiTwo"
               THEN update_size_radio_buttons_state(
                        ApplyConfigs(u1, << <<"png", TRUE, TRUE, FALSE>>,
                                            <<"svg", TRUE, TRUE, FALSE>>,
                                            <<"ttf", TRUE, FALSE, FALSE>>,
                                            <<"size_72", TRUE, FALSE, FALSE>>,
                                            <<"size_618", TRUE, FALSE, FALSE>> >>))
               ELSE update_size_radio_buttons_state(
                        ApplyConfigs(u1, << <<"png", TRUE, TRUE, FALSE>>,
                                            <<"svg", TRUE, TRUE, FALSE>>,
                                            <<"ttf", TRUE, TRUE, FALSE>>,
                                            <<"size_72", TRUE, TRUE, FALSE>>,
                                            <<"size_618", TRUE, TRUE, FALSE>> >>))

\* EmojiPicker.update_contrast_button_state
update_contrast_button_state(ui) ==
    LET is_black_mode == ~ui.color_checked
    IN [ui EXCEPT !.contrast_button_enabled = is_black_mode,
                  !.contrast_enabled = IF ~is_black_mode /\ @ THEN FALSE ELSE @]

(***************************************************************************)
(* Icons.  An icon is the description of its bitmap: the image file or the  *)
(* font it was rendered from, the text drawn, the size, and whether its     *)
(* pixels were inverted.                                                   *)
(***************************************************************************)
\* the value None where an icon is expected
NoIcon == [src |-> "None", text |-> "", size |-> 0, font_size |-> 0, inverted |-> FALSE]

\* the icon decoded from an image file (Skia or QPixmap / QSvgRenderer)
FileIcon(folder, filename, size) ==
    [src |-> folder \o "/" \o filename, text |-> "", size |-> size, font_size |-> 0,
     inverted |-> FALSE]

\* EmojiPicker.render_emoji_with_skia: the glyph rasterized from a font file
SkiaFontIcon(font_path, emoji, size) ==
    [src |-> font_path, text |-> emoji, size |-> size, font_size |-> 0, inverted |-> FALSE]

\* QPainter.drawText with QFont(font_name, font_size)
QtFontIcon(font_name, emoji, size, font_size) ==
    [src |-> font_name, text |-> emoji, size |-> size, font_size |-> font_size,
     inverted |-> FALSE]

\* EmojiPicker.invert_icon_colors
invert_icon_colors(icon) == [icon EXCEPT !.inverted = ~@]

\* "color" if self.color_radio.isChecked() else "black"
color_mode_of(ui) == IF ui.color_checked THEN "color" ELSE "black"

\* the value None where an image path is expected
NoImage == [folder |-> "", filename |-> ""]

\* EmojiPicker.get_emoji_image_path
get_emoji_image_path(ui, emoji) ==
    IF InMapping(ui.emoji_to_filename, emoji)
    THEN LET filename == MappingGet(ui.emoji_to_filename, emoji)
             default_folder == IF ~ui.color_checked
                               THEN get_path("emojitwo_black_default_png")
                               ELSE get_path("emojitwo_color_default_png")
         IN IF FileExists(ui, ui.emoji_folder, filename)
            THEN [folder |-> ui.emoji_folder, filename |-> filename]
            ELSE IF ui.current_emoji_package = "EmojiTwo" /\ BasenameIsDigit(ui, ui.emoji_folder)
                    /\ FileExists(ui, default_folder, filename)
            THEN [folder |-> default_folder, filename |-> filename]
            ELSE NoImage
    ELSE NoImage

\* create_emoji_icon: package_type after the special cases of lines 1216-1229
IconPackageType(ui) ==
    IF ui.current_emoji_package = "Kaomoji" THEN "system_font"
    ELSE IF ui.current_emoji_package = "OpenMoji" /\ ui.format = "ttf" THEN "system_font"
    ELSE IF ui.current_emoji_package = "Noto" THEN "system_font"
    ELSE PackageType(ui.current_emoji_package)

\* create_emoji_icon: cache_key
emoji_cache_key(ui, emoji, size, is_category_icon) ==
    LET contrast_key == IF is_category_icon THEN FALSE ELSE ui.contrast_enabled
    IN IF IconPackageType(ui) = "system_font"
       THEN <<emoji, size, ui.current_emoji_package, color_mode_of(ui), Bool(contrast_key)>>
       ELSE <<emoji, size, ui.emoji_folder, Bool(contrast_key)>>

\* create_emoji_icon, lines 1246-1335: the icon of a font glyph.  The font
\* files of the packages are installed and Skia is available.
render_font_icon(ui, emoji, size) ==
    IF ui.current_emoji_package = "OpenMoji" /\ ui.format = "ttf"
    THEN SkiaFontIcon(IF ui.color_checked
                      THEN get_path("openmoji_color_ttf_folder")
                      ELSE get_path("openmoji_black_ttf_folder"), emoji, size)
    ELSE IF ui.current_emoji_package = "Noto"
    THEN SkiaFontIcon(IF ui.color_checked
                      THEN get_path("google_noto_color_ttf")
                      ELSE get_path("google_noto_black_ttf"), emoji, size)
    ELSE QtFontIcon("Segoe UI Emoji", emoji, size, size \div 2)

\* render_image_to_icon(image_path, size) for the path get_emoji_image_path
\* returned, None when it returned None
render_file_icon(image_path, size) ==
    IF image_path = NoImage THEN NoIcon
    ELSE FileIcon(image_path.folder, image_path.filename, size)

\* create_emoji_icon, lines 1330-1335: the contrast inversion
apply_contrast(ui, icon, is_category_icon) ==
    IF icon # NoIcon /\ ui.contrast_enabled /\ ~ui.color_checked /\ ~is_category_icon
    THEN invert_icon_colors(icon)
    ELSE icon

\* create_emoji_icon after a cache miss: the render of lines 1246-1335
render_emoji_icon(ui, emoji, size, is_category_icon) ==
    apply_contrast(ui,
                   IF IconPackageType(ui) = "system_font"
                   THEN render_font_icon(ui, emoji, size)
                   ELSE render_file_icon(get_emoji_image_path(ui, emoji), size),
                   is_category_icon)

\* what create_emoji_icon reads of the window besides its arguments
RenderConfig(ui) ==
    <<ui.current_emoji_package, ui.color_checked, ui.format, ui.contrast_enabled,
      ui.emoji_folder, ui.emoji_to_filename>>

\* create_emoji_icon without its self.cache_manager.set(cache_key, icon)
StoreIconSkipped(s, key, icon) == s

\* self.cache_manager.set(cache_key, icon)
StoreIcon(s, key, icon) ==
    [s EXCEPT !.cache = CacheSet(@, s.max_size, key, icon), !.written = @ \cup {key}]

\* the request a create_emoji_icon call stands for
IconRequest(ui, emoji, size, is_category_icon) ==
    [emoji |-> emoji, size |-> size, category |-> is_category_icon,
     config |-> RenderConfig(ui)]

\* create_emoji_icon, lines 1238-1244: the key is cached
cached_emoji_icon(s, cache_key, request, cached_icon, fresh) ==
    [s |-> [s EXCEPT
              !.obs.stale = IF cached_icon # fresh THEN @ \cup {cache_key} ELSE @,
              !.obs.repeat_served =
                    @ \/ (\E r \in s.rendered : r.request = request /\ r.icon = cached_icon),
              !.obs.repeat_missed =
                    @ \/ (\E r \in s.rendered : r.request = request /\ r.icon # cached_icon),
              !.obs.contrast_differs =
                    @ \/ (~request.category /\ cached_icon.inverted # s.ui.contrast_enabled),
              !.obs.category_inverted = @ \/ (request.category /\ cached_icon.inverted),
              !.rendered = @ \cup {[request |-> request, key |-> cache_key,
                                    icon |-> cached_icon]}],
     icon |-> cached_icon]

\* a variant of rendered_emoji_icon that stores whatever was rendered
rendered_emoji_icon_unchecked(s, cache_key, request, icon) ==
    [s |-> [StoreIcon(s, cache_key, icon) EXCEPT !.obs.none_returned = @ \/ icon = NoIcon],
     icon |-> icon]

\* create_emoji_icon, lines 1337-1341: store the rendered icon and return it
rendered_emoji_icon(s, cache_key, request, icon) ==
    IF icon = NoIcon
    THEN [s |-> [s EXCEPT !.obs.none_returned = TRUE], icon |-> NoIcon]
    ELSE [s |-> [StoreIcon(s, cache_key, icon) EXCEPT
                    !.obs.contrast_differs =
                        @ \/ (~request.category /\ icon.inverted # s.ui.contrast_enabled),
                    !.obs.category_inverted = @ \/ (request.category /\ icon.inverted),
                    !.rendered = @ \cup {[request |-> request, key |-> cache_key,
                                          icon |-> icon]}],
          icon |-> icon]

\* create_emoji_icon, lines 1246-1341: the key is not cached
missed_emoji_icon(s, cache_key, request, fresh) ==
    rendered_emoji_icon(
        [s EXCEPT
            !.obs.repeat_missed = @ \/ (\E r \in s.rendered : r.request = request),
            !.obs.decoded = TRUE,
            !.obs.stale_index = @ \/
                (/\ IconPackageType(s.ui) # "system_font"
                 /\ PackageType(s.ui.current_emoji_package) = "files"
                 /\ s.ui.emoji_to_filename # create_emoji_mapping(s.ui, s.ui.emoji_folder))],
        cache_key, request, fresh)

\* create_emoji_icon once its cache key is computed
lookup_emoji_icon(s, cache_key, request, fresh) ==
    IF CacheContains(s.cache, cache_key)
    THEN cached_emoji_icon(s, cache_key, request, CacheGet(s.cache, cache_key), fresh)
    ELSE missed_emoji_icon(s, cache_key, request, fresh)

\* EmojiPicker.create_emoji_icon: the new state and the icon returned
create_emoji_icon(s, emoji, size, is_category_icon) ==
    lookup_emoji_icon(s,
                      emoji_cache_key(s.ui, emoji, size, is_category_icon),
                      IconRequest(s.ui, emoji, size, is_category_icon),
                      render_emoji_icon(s.ui, emoji, size, is_category_icon))

\* EmojiPicker.render_image_to_icon
render_image_to_icon(ui, folder, filename, size) ==
    IF FileExists(ui, folder, filename) THEN FileIcon(folder, filename, size) ELSE NoIcon

\* EmojiPicker.create_emojitwo_component_icon; the misc folder holds
\* Emojitwo_component_1f3fd.png
create_emojitwo_component_icon(ui, emoji_code, size) ==
    IF ~ui.color_checked
    THEN FileIcon("misc", "Emojitwo_component_1f3fd.png", size)
    ELSE IF ui.format = "png"
    THEN render_image_to_icon(ui,
                              IF FileExists(ui, ui.emoji_folder, Lower(emoji_code) \o ".png")
                              THEN ui.emoji_folder
                              ELSE get_path("emojitwo_color_default_png"),
                              Lower(emoji_code) \o ".png", size)
    ELSE IF ui.format = "svg"
    THEN render_image_to_icon(ui, get_path("emojitwo_color_svg"),
                              Lower(emoji_code) \o ".svg", size)
    ELSE NoIcon

\* create_category_icon: cache_key
category_cache_key(ui, emoji_code, size) ==
    LET package_type == PackageType(ui.current_emoji_package)
    IN <<"category_" \o emoji_code, size,
         IF package_type = "files" THEN ui.emoji_folder ELSE ui.current_emoji_package,
         IF package_type # "files" THEN color_mode_of(ui) ELSE None,
         ui.current_theme>>

\* create_category_icon, lines 1608-1626: the system font fallback and the
\* inversion for the Dark and Medium themes
finish_category_icon(ui, icon, emoji, size) ==
    LET icon1 == IF icon = NoIcon
                 THEN QtFontIcon("Segoe UI Emoji", emoji, size,
                                 IF size \div 2 > 8 THEN size \div 2 ELSE 8)
                 ELSE icon
    IN IF ui.current_theme \in {"Dark", "Medium"} /\ ~ui.color_checked
       THEN invert_icon_colors(icon1)
       ELSE icon1

\* create_category_icon, lines 1596-1600: the EmojiTwo component icon
component_icon(ui, emoji_code, size) ==
    IF ui.current_emoji_package = "EmojiTwo" /\ emoji_code = "1F3FD"
    THEN create_emojitwo_component_icon(ui, emoji_code, size)
    ELSE NoIcon

\* the icon create_category_icon renders when nothing is cached
render_category_icon(ui, emoji_code, size, component) ==
    finish_category_icon(ui,
                         IF component # NoIcon THEN component
                         ELSE render_emoji_icon(ui, emoji_code, size, TRUE),
                         emoji_code, size)

\* self.cache_manager.set(cache_key, icon); return icon
store_category_icon(s, cache_key, icon) ==
    [s |-> StoreIcon(s, cache_key, icon), icon |-> icon]

\* create_category_icon, lines 1596-1606: the icon of the glyph
glyph_icon(s, emoji_code, size, component) ==
    IF component # NoIcon
    THEN [s |-> s, icon |-> component]
    ELSE create_emoji_icon(s, emoji_code, size, TRUE)

\* create_category_icon, lines 1608-1632, for the icon r of the glyph
finish_and_store(r, ui, cache_key, emoji_code, size) ==
    store_category_icon(r.s, cache_key, finish_category_icon(ui, r.icon, emoji_code, size))

\* create_category_icon once its cache key and the component icon are computed
lookup_category_icon(s, cache_key, emoji_code, size, component) ==
    IF CacheContains(s.cache, cache_key)
    THEN [s |-> [s EXCEPT !.obs.stale =
                    IF CacheGet(s.cache, cache_key)
                            # render_category_icon(s.ui, emoji_code, size, component)
                    THEN @ \cup {cache_key} ELSE @],
          icon |-> CacheGet(s.cache, cache_key)]
    ELSE finish_and_store(glyph_icon(s, emoji_code, size, component),
                          s.ui, cache_key, emoji_code, size)

\* EmojiPicker.create_category_icon: the new state and the icon returned
create_category_icon(s, emoji_code, size) ==
    lookup_category_icon(s, category_cache_key(s.ui, emoji_code, size), emoji_code, size,
                         component_icon(s.ui, emoji_code, size))

\* EmojiPicker.create_custom_emoji_icon(os.path.join(folder, filename), size)
create_custom_emoji_icon(s, folder, filename, size) ==
    LET cache_key == <<folder \o "/" \o filename, size>>
        icon == IF ~FileExists(s.ui, folder, filename) THEN NoIcon
                ELSE IF EndsWith(filename, ".svg") \/ EndsWith(filename, ".png")
                THEN FileIcon(folder, filename, size)
                ELSE NoIcon
    IN IF CacheContains(s.cache, cache_key)
       THEN [s |-> s, icon |-> CacheGet(s.cache, cache_key)]
       ELSE IF icon = NoIcon THEN [s |-> s, icon |-> NoIcon]
       ELSE [s |-> StoreIcon(s, cache_key, icon), icon |-> icon]

(***************************************************************************)
(* Invalidation, the emoji grid and the category buttons                   *)
(***************************************************************************)
\* a variant of clear_cache that leaves the cache as it is
keep_cache(s) == s

\* self.cache_manager.clear()
clear_cache(s) ==
    [s EXCEPT !.cache = CacheClearAll(@), !.rendered = {}, !.obs.cleared_all = TRUE]

\* lambda k: k[2] == old_folder; a key of fewer than three components
\* raises IndexError
references_folder(k, folder) == Len(k) >= 3 /\ k[3] = folder

\* self.cache_manager.clear(lambda k: k[2] == old_folder)
clear_old_folder(s, old_folder) ==
    LET matching == {k \in CacheKeys(s.cache) : references_folder(k, old_folder)}
        after == CacheClearFilter(s.cache, matching)
        expected == SelectSeq(s.cache, LAMBDA e : ~references_folder(e.key, old_folder))
    IN [s EXCEPT !.cache = after,
                 !.rendered = {r \in @ : CacheContains(after, r.key)},
                 !.obs.scoped = TRUE,
                 !.obs.scoped_exact = @ /\ after = expected,
                 !.obs.scoped_split = @ \/ (matching # {} /\ expected # <<>>),
                 !.obs.index_error = @ \/ (\E k \in CacheKeys(s.cache) : Len(k) < 3)]

\* min(available_sizes, key=lambda x: abs(x - self.emoji_size))
closest_size(emoji_size) ==
    LET dist(i) == IF available_sizes[i] >= emoji_size
                   THEN available_sizes[i] - emoji_size
                   ELSE emoji_size - available_sizes[i]
        best == CHOOSE i \in DOMAIN available_sizes :
                    \A j \in DOMAIN available_sizes :
                        dist(i) < dist(j) \/ (dist(i) = dist(j) /\ i <= j)
    IN available_sizes[best]

\* update_emoji_folder: folder_key
folder_key_of(ui) ==
    LET color_mode == color_mode_of(ui)
        format_mode == IF ui.format = "png" THEN "png" ELSE "svg"
        size_mode == IF ui.size_72_checked THEN "72" ELSE "618"
    IN IF ui.current_emoji_package = "Twemoji"
       THEN IF format_mode = "svg" THEN "twemoji_svg" ELSE "twemoji_72_png"
       ELSE IF ui.current_emoji_package = "EmojiTwo"
       THEN IF format_mode = "svg" THEN "emojitwo_" \o color_mode \o "_svg"
            ELSE IF color_mode = "color"
            THEN emojitwo_png_key(color_mode, closest_size(ui.emoji_size))
            ELSE "emojitwo_" \o color_mode \o "_default_png"
       ELSE IF format_mode = "svg" THEN color_mode \o "_svg"
            ELSE color_mode \o "_" \o size_mode \o "_png"

\* self.recent_emojis: the user has used the soccer ball before
recent_emojis == <<"26BD">>

\* sorted(filenames); the custom folder holds one file per extension
SortedNames(S) ==
    CHOOSE q \in [1..Cardinality(S) -> S] : {q[i] : i \in 1..Cardinality(S)} = S

\* create_emoji_button, lines 931-942: the button shows the icon, and without
\* an icon the text of the emoji, or nothing for EmojiTwo
emoji_button(made) ==
    IF made.icon # NoIcon THEN made.s
    ELSE [made.s EXCEPT !.obs.fallback =
            @ \cup {IF made.s.ui.current_emoji_package # "EmojiTwo" THEN "text" ELSE "empty"}]

\* EmojiPicker.create_emoji_button
create_emoji_button(s, emoji) ==
    emoji_button(create_emoji_icon(s, emoji, s.ui.emoji_size, FALSE))

RECURSIVE GridIcons(_, _)
\* for emoji in emojis: self.create_emoji_button(emoji, row, col)
GridIcons(s, emojis) ==
    IF emojis = <<>> THEN s
    ELSE GridIcons(create_emoji_button(s, Head(emojis)), Tail(emojis))

RECURSIVE CustomIcons(_, _)
\* for filename in custom_files: self.create_custom_emoji_icon(image_path, self.emoji_size)
CustomIcons(s, filenames) ==
    IF filenames = <<>> THEN s
    ELSE CustomIcons(create_custom_emoji_icon(s, s.ui.emoji_folder, Head(filenames),
                                              s.ui.emoji_size).s, Tail(filenames))

\* EmojiPicker.populate_emojis; the Recent tab is the one displayed, no
\* variation filter is set and the categories have no subcategories
populate_emojis(s) ==
    LET ui == s.ui
        file_extension == IF ui.format = "svg" THEN ".svg"
                          ELSE IF ui.format = "ttf" THEN ".ttf" ELSE ".png"
    IN IF ui.current_emoji_package = "Custom"
       THEN CustomIcons(s, SortedNames({f.name : f \in
                    {g \in listdir(ui, ui.emoji_folder) : EndsWith(g.name, file_extension)}}))
       ELSE GridIcons(s, IF ui.current_emoji_package = "Kaomoji"
                         THEN IF ui.current_category = "recent_favorites"
                              THEN recent_emojis ELSE <<>>
                         ELSE IF ui.current_category \in {"Recent & Favorites",
                                                          "recent_favorites"}
                         THEN recent_emojis
                         ELSE emoji_data(ui.current_category))

RECURSIVE update_emoji_folder(_)
RECURSIVE refresh_emoji_display(_)
\* EmojiPicker.update_emoji_folder
update_emoji_folder(s) ==
    IF s.ui.format = "ttf" \/ s.ui.current_emoji_package = "Custom"
    THEN refresh_emoji_display(clear_cache(s))
    ELSE LET old_folder == s.ui.emoji_folder
             new_folder == get_path(folder_key_of(s.ui))
             s1 == [s EXCEPT !.ui.emoji_folder = new_folder]
             s2 == IF old_folder # new_folder THEN clear_old_folder(s1, old_folder) ELSE s1
         IN IF new_folder = KeyError THEN s
            ELSE [s2 EXCEPT !.ui.emoji_to_filename = create_emoji_mapping(s.ui, new_folder)]

\* EmojiPicker.refresh_emoji_display
refresh_emoji_display(s) ==
    populate_emojis(IF s.ui.current_emoji_package = "EmojiTwo" /\ s.ui.format = "png"
                    THEN update_emoji_folder(s)
                    ELSE s)

RECURSIVE CategoryIcons(_, _)
\* for category, btn in self.category_buttons.items():
\*     if category in self.category_emoji_codes: self.create_category_icon(emoji_code, 32)
CategoryIcons(s, categories) ==
    IF categories = <<>> THEN s
    ELSE CategoryIcons(create_category_icon(s, category_emoji_codes[Head(categories)], 32).s,
                       Tail(categories))

\* EmojiPicker.update_category_button_icons; the Kaomoji tabs of the model
\* are none of the categories of category_emoji_codes
update_category_button_icons(s) ==
    IF s.ui.category_tabs = "standard" THEN CategoryIcons(s, StandardCategories) ELSE s

\* EmojiPicker.create_category_tabs and EmojiPicker.restore_standard_category_tabs
restore_standard_category_tabs(s) ==
    CategoryIcons([s EXCEPT !.ui.category_tabs = "standard"], StandardCategories)

\* EmojiPicker.update_category_icons_for_theme
update_category_icons_for_theme(s) ==
    IF ~s.ui.color_checked /\ s.ui.category_tabs = "standard"
    THEN CategoryIcons(s, StandardCategories)
    ELSE s

\* EmojiPicker.apply_theme; the background_color preference is on
apply_theme(s, theme) ==
    [update_category_icons_for_theme(
        refresh_emoji_display([s EXCEPT !.ui.current_theme = theme]))
     EXCEPT !.ui = update_contrast_button_state(@)]

(***************************************************************************)
(* Package initialisation and the handlers of the window                   *)
(***************************************************************************)
\* KaomojiPackageStrategy.initialize
KaomojiPackageStrategy_initialize(s) ==
    populate_emojis([s EXCEPT !.ui = [update_radio_buttons_for_package(@) EXCEPT
                                        !.container_shown = FALSE,
                                        !.category_tabs = "kaomoji",
                                        !.current_category = "recent_favorites"]])

\* self.emoji_to_filename, self.compound_emoji_variations =
\*     self.emoji_manager.create_emoji_mapping(self.emoji_folder)
rebuild_emoji_mapping(s) ==
    [s EXCEPT !.ui.emoji_to_filename = create_emoji_mapping(s.ui, s.ui.emoji_folder)]

\* FileBasedPackageStrategy(supports_color).initialize with the default
\* save_preferences: format_selection and category_button are saved,
\* color_black and package_size are not
FileBasedPackageStrategy_initialize(s, supports_color) ==
    populate_emojis(update_category_button_icons(rebuild_emoji_mapping(update_emoji_folder(
        [s EXCEPT !.ui = update_size_radio_buttons_state(update_radio_buttons_for_package(
            setChecked(IF supports_color THEN setChecked(@, "color") ELSE @,
                       "size_72")))]))))

\* the categories on_emoji_package_change keeps
KeptCategories == {"Recent & Favorites", "activities", "component"}

\* on_emoji_package_change, lines 3534-3548: the category tabs of the package
package_category_tabs(s, selected_package) ==
    IF selected_package = "Kaomoji"
    THEN KaomojiPackageStrategy_initialize(s)
    ELSE [restore_standard_category_tabs([s EXCEPT !.ui.container_shown = TRUE])
          EXCEPT !.ui.current_category =
                    IF @ \in KeptCategories THEN @ ELSE "Recent & Favorites"]

\* on_emoji_package_change, lines 3593-3599: the format and size defaults
file_package_format(ui) ==
    setChecked(IF ~ui.enabled["ttf"] THEN setChecked(ui, "png")
               ELSE IF ui.format \notin {"png", "svg"} THEN setChecked(ui, "png")
               ELSE ui,
               "size_72")

\* on_emoji_package_change, lines 3550-3615: the radio buttons of the package
package_radio_buttons(ui, selected_package) ==
    CASE selected_package = "Custom" ->
            update_radio_buttons_for_package(
                [detect_custom_emoji_formats(ui) EXCEPT !.emoji_folder = CustomFolder])
      [] selected_package = "Segoe UI Emoji" -> update_size_radio_buttons_state(ui)
      [] selected_package = "Noto" ->
            update_size_radio_buttons_state(update_contrast_button_state(
                setChecked(setChecked(ui, "ttf"), "color")))
      [] selected_package \in {"OpenMoji", "EmojiTwo"} ->
            update_size_radio_buttons_state(update_contrast_button_state(
                setChecked(file_package_format(ui), "color")))
      [] selected_package = "Twemoji" ->
            update_size_radio_buttons_state(file_package_format(ui))
      [] OTHER -> ui

\* on_emoji_package_change, lines 3550-3629: the folder, the grid and the
\* category icons of the package
package_display(s, selected_package) ==
    IF selected_package = "Kaomoji" THEN s
    ELSE update_category_button_icons(refresh_emoji_display(
            IF selected_package \in {"OpenMoji", "Twemoji", "EmojiTwo"}
            THEN update_emoji_folder(s)
            ELSE s))

\* EmojiPicker.on_emoji_package_change
on_emoji_package_change(s, selected_package) ==
    package_display(
        [package_category_tabs(
            [clear_cache([s EXCEPT !.ui.current_emoji_package = selected_package])
             EXCEPT !.ui = update_radio_buttons_for_package(@)],
            selected_package)
         EXCEPT !.ui = package_radio_buttons(@, selected_package)],
        selected_package)

\* EmojiPicker.refresh_custom_emojis: the radio buttons, the cache, the
\* folder and the grid (its two lists are in the model of the usage counts)
refresh_custom_folder(s) ==
    update_category_button_icons(refresh_emoji_display(update_emoji_folder(
        clear_cache([s EXCEPT !.ui = update_radio_buttons_for_package(
                                        detect_custom_emoji_formats(@))]))))

\* EmojiPicker.on_color_black_change
on_color_black_change(s) ==
    update_category_button_icons(refresh_emoji_display(update_emoji_folder(
        [clear_cache(s) EXCEPT !.ui = update_contrast_button_state(@)])))

\* EmojiPicker.on_format_radio_change
on_format_radio_change(s) ==
    update_category_button_icons(refresh_emoji_display(update_emoji_folder(
        [s EXCEPT !.ui = update_size_radio_buttons_state(@)])))

\* EmojiPicker.on_size_radio_change
on_size_radio_change(s) ==
    update_category_button_icons(refresh_emoji_display(update_emoji_folder(s)))

\* EmojiPicker.on_size_input_change
on_size_input_change(s, text) ==
    LET new_size == IF text < 1 THEN 1 ELSE IF text > 618 THEN 618 ELSE text
    IN refresh_emoji_display([s EXCEPT !.ui.emoji_size = new_size])

\* EmojiPicker.on_contrast_toggle
on_contrast_toggle(s) ==
    refresh_emoji_display(clear_cache([s EXCEPT !.ui.contrast_enabled = ~@]))

\* EmojiPicker.cycle_theme
cycle_theme(s) ==
    LET next_theme == CASE s.ui.current_theme = "Light" -> "Medium"
                        [] s.ui.current_theme = "Medium" -> "Dark"
                        [] OTHER -> "Light"
    IN apply_theme([s EXCEPT !.ui.current_theme = next_theme], next_theme)

\* EmojiPicker.on_category_click
on_category_click(s, category) ==
    populate_emojis([s EXCEPT !.ui.current_category = category])

\* nothing observed yet in the handler
BlankObs(handler) ==
    [handler |-> handler, stale |-> {}, stale_index |-> FALSE, decoded |-> FALSE,
     repeat_served |-> FALSE, repeat_missed |-> FALSE, scoped |-> FALSE,
     scoped_exact |-> TRUE, scoped_split |-> FALSE, cleared_all |-> FALSE,
     index_error |-> FALSE, carried |-> FALSE, contrast_differs |-> FALSE,
     category_inverted |-> FALSE, none_returned |-> FALSE, fallback |-> {}, runs |-> 0]

\* EmojiPicker.__init__ up to init_ui, and the radio buttons init_ui creates
AfterInitUi ==
    [current_emoji_package |-> "EmojiTwo",
     emoji_folders |-> build_all_paths,
     emoji_folder |-> get_path("emojitwo_color_72_png"),
     current_category |-> "Recent & Favorites",
     emoji_size |-> 48,
     current_theme |-> "Light",
     contrast_enabled |-> FALSE,
     contrast_button_enabled |-> TRUE,
     custom_emoji_formats_available |-> [fmt \in {"png", "svg", "ttf"} |-> FALSE],
     emoji_to_filename |-> {},
     color_checked |-> TRUE,
     size_72_checked |-> TRUE,
     format |-> "png",
     enabled |-> [b \in Buttons |-> TRUE],
     visible |-> [b \in Buttons |-> TRUE],
     container_shown |-> TRUE,
     category_tabs |-> "standard"]

\* EmojiPicker.__init__ before init_ui
Unbuilt ==
    [ui |-> AfterInitUi, cache |-> <<>>, max_size |-> PickerCacheSize,
     rendered |-> {}, obs |-> BlankObs("__init__"), written |-> {}]

\* EmojiPicker.__init__ for a first start: init_ui with its category tabs,
\* apply_theme, apply_saved_ui_settings, initialize_package
Constructed ==
    FileBasedPackageStrategy_initialize(
        [apply_theme(restore_standard_category_tabs(Unbuilt), "Light")
         EXCEPT !.ui = update_contrast_button_state(setChecked(@, "png"))],
        TRUE)

\* the handlers run in one session of the window
MaxHandlers == 4

\* the state a handler starts from
Begin(handler) ==
    [ui |-> picker, cache |-> icon_cache, max_size |-> max_size, rendered |-> rendered,
     obs |-> [BlankObs(handler) EXCEPT !.runs = obs.runs + 1], written |-> {}]

\* the state a handler leaves
Commit(s) ==
    /\ picker' = s.ui
    /\ icon_cache' = s.cache
    /\ rendered' = s.rendered
    /\ obs' = [s.obs EXCEPT !.carried =
                    \E k \in CacheKeys(icon_cache) :
                        CacheContains(s.cache, k) /\ k \notin s.written]
    /\ max_size' = max_size
    /\ UNCHANGED notPicker

\* the session goes on
Running == obs.runs < MaxHandlers

Packages ==
    {"EmojiTwo", "Noto", "OpenMoji", "Segoe UI Emoji", "Twemoji", "Kaomoji", "Custom"}

\* the radio button can be clicked
Clickable(name) ==
    picker.container_shown /\ picker.visible[name] /\ picker.enabled[name]

Shown(s) ==
    /\ icon_cache = s.cache
    /\ picker = s.ui
    /\ rendered = s.rendered

InitPicker ==
    /\ Shown(Constructed)
    /\ max_size = PickerCacheSize
    /\ inserted_at = <<>>
    /\ clock = 0
    /\ touched = {}
    /\ last = NoCall
    /\ PathIdle
    /\ ExtractIdle
    /\ obs = BlankObs("__init__")
    /\ ManagersIdle

\* emoji_package_combo.currentIndexChanged
PackageChange ==
    \E selected_package \in Packages \ {picker.current_emoji_package} :
        /\ Running
        /\ Commit(on_emoji_package_change(Begin("on_emoji_package_change"), selected_package))

\* color_black_group.buttonClicked
ColorBlackClick ==
    \E name \in {"color", "black"} :
        /\ Running
        /\ Clickable(name)
        /\ Commit(on_color_black_change(
                [Begin("on_color_black_change") EXCEPT !.ui = setChecked(@, name)]))

\* format_group.buttonClicked
FormatClick ==
    \E name \in {"png", "svg", "ttf"} :
        /\ Running
        /\ Clickable(name)
        /\ Commit(on_format_radio_change(
                [Begin("on_format_radio_change") EXCEPT !.ui = setChecked(@, name)]))

\* size_group.buttonClicked
SizeClick ==
    \E name \in {"size_72", "size_618"} :
        /\ Running
        /\ Clickable(name)
        /\ Commit(on_size_radio_change(
                [Begin("on_size_radio_change") EXCEPT !.ui = setChecked(@, name)]))

\* size_input.editingFinished
SizeInput ==
    \E text \in EmojiSizes :
        /\ Running
        /\ Commit(on_size_input_change(Begin("on_size_input_change"), text))

\* refresh_custom_button.clicked; the button is shown for the Custom
\* package only
RefreshClick ==
    /\ Running
    /\ picker.current_emoji_package = "Custom"
    /\ picker.container_shown
    /\ Commit(refresh_custom_folder(Begin("refresh_custom_emojis")))

\* contrast_button.clicked
ContrastClick ==
    /\ Running
    /\ picker.contrast_button_enabled
    /\ Commit(on_contrast_toggle(Begin("on_contrast_toggle")))

\* the T keyboard shortcut
ThemeKey ==
    /\ Running
    /\ Commit(cycle_theme(Begin("cycle_theme")))

\* a category button's clicked; the buttons are hidden under Custom
CategoryClick ==
    \E category \in ClickedCategories :
        /\ Running
        /\ picker.category_tabs = "standard"
        /\ picker.current_emoji_package # "Custom"
        /\ Commit(on_category_click(Begin("on_category_click"), category))

Next ==
    \/ PackageChange
    \/ ColorBlackClick
    \/ FormatClick
    \/ SizeClick
    \/ SizeInput
    \/ ContrastClick
    \/ ThemeKey
    \/ CategoryClick
    \/ RefreshClick

Spec == InitPicker /\ [][Next]_vars

(***************************************************************************)
(* EmojiManager  (src/data/managers/emoji_manager.py)                      *)
(*                                                                         *)
(* A str that holds a glyph is the sequence of its code points; a file     *)
(* name or a string of codes is a string.                                  *)
(***************************************************************************)
HexDigits == "0123456789ABCDEF"

LowerHexDigits == "0123456789abcdef"

\* s[i - 1:j], the slice of a string
Slice(s, i, j) ==
    IF i > j \/ i > Len(s) THEN ""
    ELSE SubSeq(s, i, IF j > Len(s) THEN Len(s) ELSE j)

\* s[i - 1]
CharAt(s, i) == Slice(s, i, i)

\* s[i - 1:]
StrFrom(s, i) == Slice(s, i, Len(s))

RECURSIVE hex_upper(_)
\* hex(n)[2:].upper()
hex_upper(n) ==
    IF n < 16 THEN CharAt(HexDigits, n + 1)
    ELSE hex_upper(n \div 16) \o CharAt(HexDigits, (n % 16) + 1)

RECURSIVE zfill_right(_, _)
\* a variant of zfill that pads on the right
zfill_right(s, width) == IF Len(s) >= width THEN s ELSE zfill_right(s \o "0", width)

RECURSIVE zfill(_, _)
\* str.zfill(width)
zfill(s, width) == IF Len(s) >= width THEN s ELSE zfill("0" \o s, width)

RECURSIVE join(_, _)
\* sep.join(parts)
join(sep, parts) ==
    IF parts = <<>> THEN ""
    ELSE IF Len(parts) = 1 THEN parts[1]
    ELSE parts[1] \o sep \o join(sep, Tail(parts))

\* EmojiManager.emoji_to_unicode
emoji_to_unicode(emoji) ==
    join("-", [i \in 1..Len(emoji) |-> zfill(hex_upper(emoji[i]), 4)])

RECURSIVE find_from(_, _, _)
\* the index of the first occurrence of pat in s at or after i, 0 when there is none
find_from(s, pat, i) ==
    IF i + Len(pat) - 1 > Len(s) THEN 0
    ELSE IF SubSeq(s, i, i + Len(pat) - 1) = pat THEN i
    ELSE find_from(s, pat, i + 1)

\* s.find(pat) + 1
str_find(s, pat) == find_from(s, pat, 1)

RECURSIVE str_remove(_, _)
\* s.replace(old, '') when the first occurrence of old is at found
remove_at(s, old, found) ==
    IF found = 0 THEN s
    ELSE Slice(s, 1, found - 1) \o str_remove(StrFrom(s, found + Len(old)), old)

\* s.replace(old, '')
str_remove(s, old) == remove_at(s, old, str_find(s, old))

RECURSIVE str_split(_, _)
\* s.split(sep) when the first occurrence of sep is at found
split_at(s, sep, found) ==
    IF found = 0 THEN <<s>>
    ELSE <<Slice(s, 1, found - 1)>> \o str_split(StrFrom(s, found + Len(sep)), sep)

\* s.split(sep)
str_split(s, sep) == split_at(s, sep, str_find(s, sep))

\* s.endswith(suffix)
str_endswith(s, suffix) ==
    Len(s) >= Len(suffix) /\ StrFrom(s, Len(s) - Len(suffix) + 1) = suffix

\* int(code, 16) and chr(char_code) raise ValueError
ValueError == -1

\* the hexadecimal digits int accepts, each with its value
HexValue ==
    [c \in {CharAt(HexDigits, d) : d \in 1..16} \cup {CharAt(LowerHexDigits, d) : d \in 1..16}
        |-> IF str_find(HexDigits, c) # 0 THEN str_find(HexDigits, c) - 1
            ELSE str_find(LowerHexDigits, c) - 1]

\* the value of a hexadecimal digit
DigitValue(c) == IF c \in DOMAIN HexValue THEN HexValue[c] ELSE ValueError

RECURSIVE DigitsValue(_, _)
\* the number after one more digit
next_digit(digits, acc, value) ==
    IF value = ValueError THEN ValueError
    ELSE DigitsValue(StrFrom(digits, 2), acc * 16 + value)

\* the number a non-empty string of hexadecimal digits denotes
DigitsValue(digits, acc) ==
    IF digits = "" THEN acc
    ELSE next_digit(digits, acc, DigitValue(CharAt(digits, 1)))

\* int: the digits after the optional prefix 0x or 0X
Unprefixed(code) ==
    IF Len(code) >= 2 /\ Slice(code, 1, 2) \in {"0x", "0X"} THEN StrFrom(code, 3) ELSE code

\* int: the string after the optional sign +
Unsigned(code) ==
    IF Len(code) >= 1 /\ CharAt(code, 1) = "+" THEN StrFrom(code, 2) ELSE code

\* int(code, 16) for a code without white space, underscore and minus sign
int16(code) ==
    IF Unprefixed(Unsigned(code)) = "" THEN ValueError
    ELSE DigitsValue(Unprefixed(Unsigned(code)), 0)

\* chr(char_code) returns a character: char_code in range(0x110000)
chr_ok(char_code) == char_code >= 0 /\ char_code < 1114112

RECURSIVE NFC(_)
\* unicodedata.normalize('NFC', s) on the code points of the model: U+212B
\* ANGSTROM SIGN normalizes to U+00C5, and U+0041 U+030A compose to U+00C5
NFC(s) ==
    IF s = <<>> THEN <<>>
    ELSE IF s[1] = 8491 THEN <<197>> \o NFC(Tail(s))
    ELSE IF Len(s) >= 2 /\ s[1] = 65 /\ s[2] = 778 THEN <<197>> \o NFC(SubSeq(s, 3, Len(s)))
    ELSE <<s[1]>> \o NFC(Tail(s))

\* the value None where a glyph is expected
NoGlyph == <<ValueError>>

\* unicode_to_emoji, lines 34-42: the characters of the codes that convert
DecodedChars(codes) ==
    SelectSeq([i \in 1..Len(codes) |-> int16(codes[i])], chr_ok)

\* unicode_to_emoji, lines 44-47
glyph_or_none(chars) == IF chars # <<>> THEN NFC(chars) ELSE NoGlyph

\* EmojiManager.unicode_to_emoji
unicode_to_emoji(unicode_str) ==
    glyph_or_none(DecodedChars(str_split(str_remove(str_remove(unicode_str, ".png"), ".svg"),
                                         "-")))

\* an empty dict
EmptyDict == [k \in {} |-> k]

\* d[key] = value
dict_set(d, key, value) ==
    [k \in DOMAIN d \cup {key} |-> IF k = key THEN value ELSE d[k]]

\* create_emoji_mapping, line 78
file_extension(emoji_folder) ==
    IF str_find(emoji_folder.path, "svg") # 0 THEN ".svg" ELSE ".png"

\* create_emoji_mapping, line 87
unicode_codes(filename, extension) == str_split(str_remove(filename, extension), "-")

\* create_emoji_mapping, line 91: chr(int(code, 16)) raises for one of the codes
codes_raise(codes) == \E i \in 1..Len(codes) : ~chr_ok(int16(codes[i]))

\* create_emoji_mapping, lines 91-92
normalized_emoji(codes) == NFC([i \in 1..Len(codes) |-> int16(codes[i])])

\* create_emoji_mapping, lines 97-100
main_normalized(codes) == NFC(<<int16(codes[1])>>)

\* a variant of store_full_emoji that keeps the file already mapped
store_full_emoji_once(maps, filename, codes) ==
    IF normalized_emoji(codes) \in DOMAIN maps.emoji_to_filename THEN maps
    ELSE [maps EXCEPT !.emoji_to_filename = dict_set(@, normalized_emoji(codes), filename)]

\* create_emoji_mapping, line 93
store_full_emoji(maps, filename, codes) ==
    [maps EXCEPT !.emoji_to_filename = dict_set(@, normalized_emoji(codes), filename)]

\* a variant of store_main_emoji that replaces the file already mapped
store_main_emoji_always(maps, filename, codes) ==
    [maps EXCEPT !.emoji_to_filename = dict_set(@, main_normalized(codes), filename)]

\* create_emoji_mapping, lines 103-104
store_main_emoji(maps, filename, codes) ==
    IF main_normalized(codes) \in DOMAIN maps.emoji_to_filename THEN maps
    ELSE [maps EXCEPT !.emoji_to_filename = dict_set(@, main_normalized(codes), filename)]

\* create_emoji_mapping, lines 107-113
store_variation(maps, filename, codes) ==
    [maps EXCEPT !.compound_emoji_variations =
        dict_set(@, main_normalized(codes),
                 (IF main_normalized(codes) \in DOMAIN @ THEN @[main_normalized(codes)]
                  ELSE <<>>)
                    \o <<[filename |-> filename, codes |-> codes,
                          full_emoji |-> normalized_emoji(codes)]>>)]

\* create_emoji_mapping, lines 91-115: a file whose codes were extracted
map_codes(maps, filename, codes) ==
    IF codes_raise(codes) THEN maps
    ELSE IF Len(codes) > 1
    THEN store_variation(store_main_emoji(store_full_emoji(maps, filename, codes),
                                          filename, codes),
                         filename, codes)
    ELSE store_full_emoji(maps, filename, codes)

\* create_emoji_mapping, lines 85-119: one turn of the loop
map_file(maps, filename, extension) ==
    IF str_endswith(filename, extension)
    THEN map_codes(maps, filename, unicode_codes(filename, extension))
    ELSE maps

RECURSIVE map_files(_, _, _)
\* create_emoji_mapping, lines 84-119: the loop over os.listdir(emoji_folder)
map_files(maps, files, extension) ==
    IF files = <<>> THEN maps
    ELSE map_files(map_file(maps, Head(files), extension), Tail(files), extension)

\* a variant of fresh_maps that starts from the dicts of the previous build
fresh_maps_kept(self) ==
    [emoji_to_filename |-> self.emoji_to_filename,
     compound_emoji_variations |-> self.compound_emoji_variations]

\* create_emoji_mapping, lines 74-75
fresh_maps(self) ==
    [emoji_to_filename |-> EmptyDict, compound_emoji_variations |-> EmptyDict]

\* EmojiManager.create_emoji_mapping: the two dicts it leaves in self and returns
EmojiManager_create_emoji_mapping(self, emoji_folder) ==
    IF ~emoji_folder.exists THEN fresh_maps(self)
    ELSE map_files(fresh_maps(self), emoji_folder.files, file_extension(emoji_folder))

(***************************************************************************)
(* The EmojiManager under calls of its three operations.                   *)
(***************************************************************************)
\* the longest glyph passed to emoji_to_unicode, in code points
MaxGlyphLen == 2

\* the most files a folder holds
MaxFiles == 2

\* A, COMBINING RING ABOVE, ANGSTROM SIGN, ZERO WIDTH JOINER, REGIONAL
\* INDICATOR F, MEDIUM SKIN TONE, WOMAN
CodePoints == {65, 778, 8491, 8205, 127467, 127997, 128105}

Glyphs == UNION {[1..n -> CodePoints] : n \in 1..MaxGlyphLen}

FileNames == {"1F469.png", "1f469.png", "1F469-200D.png", "1F469-1F3FD.png", "1F469-ZZ.png",
              "ZZ.png", "41-30A.svg", "C5.svg", "C5-200D.svg"}

\* the listings of os.listdir: no name twice
Listings ==
    UNION {{files \in [1..n -> FileNames] :
                \A i, j \in 1..n : files[i] = files[j] => i = j} : n \in 0..MaxFiles}

FolderPaths == {"noto/svg", "noto/png/32"}

NoFolder == [path |-> "", exists |-> FALSE, files |-> <<>>]

Folders ==
    {[path |-> path, exists |-> TRUE, files |-> files] :
        path \in FolderPaths, files \in Listings}
    \cup {[path |-> path, exists |-> FALSE, files |-> <<>>] : path \in FolderPaths}

\* the call made last: emoji and unicode_str are the argument and the result
\* of a conversion, encoded is the glyph unicode_str was made from, and
\* had_entries tells that emoji_to_filename had entries when
\* create_emoji_mapping was called
NoEmojiCall ==
    [op |-> "__init__", emoji |-> NoGlyph, unicode_str |-> "", encoded |-> NoGlyph,
     emoji_folder |-> NoFolder, had_entries |-> FALSE]

\* EmojiManager.__init__
InitEmoji ==
    /\ em = [emoji_to_filename |-> EmptyDict, compound_emoji_variations |-> EmptyDict,
             call |-> NoEmojiCall]
    /\ dm = None
    /\ zoom = None
    /\ combo = None
    /\ CacheIdle
    /\ PathIdle
    /\ ExtractIdle
    /\ PickerIdle

\* the manager once a call has left it the two dicts of maps
called(maps, call) ==
    [emoji_to_filename |-> maps.emoji_to_filename,
     compound_emoji_variations |-> maps.compound_emoji_variations,
     call |-> call]

EmojiToUnicode ==
    /\ \E emoji \in Glyphs :
        em' = [em EXCEPT !.call = [NoEmojiCall EXCEPT !.op = "emoji_to_unicode",
                                                 !.emoji = emoji,
                                                 !.unicode_str = emoji_to_unicode(emoji)]]
    /\ UNCHANGED <<dm, notManagers>>

\* the strings passed to unicode_to_emoji: a file name, or what
\* emoji_to_unicode has just returned
UnicodeStrings(call) ==
    FileNames \cup (IF call.op = "emoji_to_unicode" THEN {call.unicode_str} ELSE {})

UnicodeToEmoji ==
    /\ \E unicode_str \in UnicodeStrings(em.call) :
        em' = [em EXCEPT !.call =
                [NoEmojiCall EXCEPT !.op = "unicode_to_emoji",
                               !.unicode_str = unicode_str,
                               !.emoji = unicode_to_emoji(unicode_str),
                               !.encoded = IF /\ em.call.op = "emoji_to_unicode"
                                              /\ em.call.unicode_str = unicode_str
                                           THEN em.call.emoji ELSE NoGlyph]]
    /\ UNCHANGED <<dm, notManagers>>

CreateEmojiMapping ==
    /\ \E emoji_folder \in Folders :
        em' = called(EmojiManager_create_emoji_mapping(em, emoji_folder),
                     [NoEmojiCall EXCEPT !.op = "create_emoji_mapping",
                                         !.emoji_folder = emoji_folder,
                                         !.had_entries = em.emoji_to_filename # EmptyDict])
    /\ UNCHANGED <<dm, notManagers>>

NextEmoji == EmojiToUnicode \/ UnicodeToEmoji \/ CreateEmojiMapping

SpecEmoji == InitEmoji /\ [][NextEmoji]_vars

\* C11: a glyph that is NFC-stable comes back unchanged from
\* unicode_to_emoji(emoji_to_unicode(glyph)), whatever its length
C11_RoundTrip ==
    (/\ em.call.op = "unicode_to_emoji"
     /\ em.call.encoded # NoGlyph
     /\ NFC(em.call.encoded) = em.call.encoded)
        => em.call.emoji = em.call.encoded

\* a ZWJ sequence, a skin-tone sequence or a flag half has made the round trip
C11_SequenceRoundTrip ==
    /\ em.call.op = "unicode_to_emoji"
    /\ em.call.encoded \in {<<128105, 8205>>, <<128105, 127997>>, <<127467, 127467>>}
    /\ em.call.emoji = em.call.encoded

\* the folder create_emoji_mapping was called on last, its listing, and the
\* codes in the name of its i-th file
BuiltFolder == em.call.emoji_folder

BuiltFiles == BuiltFolder.files

BuiltCodes(i) == unicode_codes(BuiltFiles[i], file_extension(BuiltFolder))

\* the i-th file has the extension of the folder
HasExtension(i) == str_endswith(BuiltFiles[i], file_extension(BuiltFolder))

\* the i-th file has the extension of the folder and a name of valid codes
ValidFile(i) == HasExtension(i) /\ ~codes_raise(BuiltCodes(i))

\* the i-th file is a valid file with more than one code
CompoundFile(i) == ValidFile(i) /\ Len(BuiltCodes(i)) > 1

\* the i-th file is a valid file whose full glyph is emoji
FullGlyphIs(i, emoji) == ValidFile(i) /\ normalized_emoji(BuiltCodes(i)) = emoji

\* the i-th file is a compound file whose first code point is the glyph emoji
BaseGlyphIs(i, emoji) == CompoundFile(i) /\ main_normalized(BuiltCodes(i)) = emoji

Built == em.call.op = "create_emoji_mapping" /\ BuiltFolder.exists

\* the entries of the variation list of emoji that name the file
VariationsOf(emoji, filename) ==
    IF emoji \in DOMAIN em.compound_emoji_variations
    THEN {k \in 1..Len(em.compound_emoji_variations[emoji]) :
            em.compound_emoji_variations[emoji][k].filename = filename}
    ELSE {}

\* the i-th file, a compound one, has exactly one entry in the variation list
\* of its first code point: its name, its codes and its full glyph
OneVariation(i) ==
    /\ Cardinality(VariationsOf(main_normalized(BuiltCodes(i)), BuiltFiles[i])) = 1
    /\ \A k \in VariationsOf(main_normalized(BuiltCodes(i)), BuiltFiles[i]) :
        em.compound_emoji_variations[main_normalized(BuiltCodes(i))][k] =
            [filename |-> BuiltFiles[i], codes |-> BuiltCodes(i),
             full_emoji |-> normalized_emoji(BuiltCodes(i))]

\* C12: the glyph index decodes a file name as unicode_to_emoji does: a file
\* with the extension of the folder whose name has a valid token is indexed
\* under the glyph of its valid tokens, whatever its other tokens are
C12_IndexDecodesAsCodec ==
    Built =>
        \A i \in 1..Len(BuiltFiles) :
            (HasExtension(i) /\ unicode_to_emoji(BuiltFiles[i]) # NoGlyph)
                => unicode_to_emoji(BuiltFiles[i]) \in DOMAIN em.emoji_to_filename

\* C13 as stated: every valid file is what its full glyph maps to, a compound
\* file has exactly one variation entry under its first code point, and the
\* variation table has no key that emoji_to_filename lacks
C13_FullGlyphMapsToItsFile ==
    Built =>
        /\ \A i \in 1..Len(BuiltFiles) :
            ValidFile(i) =>
                /\ normalized_emoji(BuiltCodes(i)) \in DOMAIN em.emoji_to_filename
                /\ em.emoji_to_filename[normalized_emoji(BuiltCodes(i))] = BuiltFiles[i]
                /\ CompoundFile(i) => OneVariation(i)
        /\ DOMAIN em.compound_emoji_variations \subseteq DOMAIN em.emoji_to_filename

\* C13: the full glyph of every valid file maps to the last file of the
\* listing whose name decodes to that glyph; a compound file has exactly one
\* variation entry under its first code point, and the variation table has
\* no key that emoji_to_filename lacks
C13_FullGlyphMapsToLastFile ==
    Built =>
        /\ \A i \in 1..Len(BuiltFiles) :
            ValidFile(i) =>
                /\ normalized_emoji(BuiltCodes(i)) \in DOMAIN em.emoji_to_filename
                /\ \E j \in i..Len(BuiltFiles) :
                    /\ FullGlyphIs(j, normalized_emoji(BuiltCodes(i)))
                    /\ \A k \in (j + 1)..Len(BuiltFiles) :
                        ~FullGlyphIs(k, normalized_emoji(BuiltCodes(i)))
                    /\ em.emoji_to_filename[normalized_emoji(BuiltCodes(i))] = BuiltFiles[j]
                /\ CompoundFile(i) => OneVariation(i)
        /\ DOMAIN em.compound_emoji_variations \subseteq DOMAIN em.emoji_to_filename

\* two files of the listing decode to one glyph, and a compound file is
\* indexed with its variation
C13_TwoFilesOfOneGlyph ==
    /\ Built
    /\ \E i, j \in 1..Len(BuiltFiles) :
        /\ i < j
        /\ ValidFile(i)
        /\ FullGlyphIs(j, normalized_emoji(BuiltCodes(i)))
        /\ em.emoji_to_filename[normalized_emoji(BuiltCodes(i))] = BuiltFiles[j]

\* the first file of the listing that writes emoji_to_filename[emoji]
FirstWriter(emoji) ==
    CHOOSE j \in 1..Len(BuiltFiles) :
        /\ FullGlyphIs(j, emoji) \/ BaseGlyphIs(j, emoji)
        /\ \A k \in 1..(j - 1) : ~(FullGlyphIs(k, emoji) \/ BaseGlyphIs(k, emoji))

\* C14 as stated: the first code point of a compound file maps to the first
\* file of the listing that mapped it; no later file replaces it
C14_BaseMappingFirstWriterWins ==
    Built =>
        \A i \in 1..Len(BuiltFiles) :
            CompoundFile(i) =>
                em.emoji_to_filename[main_normalized(BuiltCodes(i))] =
                    BuiltFiles[FirstWriter(main_normalized(BuiltCodes(i)))]

\* C14: when no file of the listing has the first code point of a compound
\* file as its full glyph, that code point maps to the first compound file of
\* the listing that begins with it
C14_FirstCompoundFileWinsBase ==
    Built =>
        \A i \in 1..Len(BuiltFiles) :
            (/\ CompoundFile(i)
             /\ \A j \in 1..Len(BuiltFiles) : ~FullGlyphIs(j, main_normalized(BuiltCodes(i))))
                => \E j \in 1..i :
                    /\ BaseGlyphIs(j, main_normalized(BuiltCodes(i)))
                    /\ \A k \in 1..(j - 1) : ~BaseGlyphIs(k, main_normalized(BuiltCodes(i)))
                    /\ em.emoji_to_filename[main_normalized(BuiltCodes(i))] = BuiltFiles[j]

\* two compound files begin with one code point, which maps to the first
C14_SecondCompoundFileKeptOut ==
    /\ Built
    /\ \E i, j \in 1..Len(BuiltFiles) :
        /\ i < j
        /\ CompoundFile(i)
        /\ BaseGlyphIs(j, main_normalized(BuiltCodes(i)))
        /\ em.emoji_to_filename[main_normalized(BuiltCodes(i))] = BuiltFiles[i]

\* every entry of the two dicts names a valid file of the listing
EntriesFromListing ==
    /\ \A emoji \in DOMAIN em.emoji_to_filename :
        \E i \in 1..Len(BuiltFiles) :
            ValidFile(i) /\ em.emoji_to_filename[emoji] = BuiltFiles[i]
    /\ \A emoji \in DOMAIN em.compound_emoji_variations :
        \A k \in 1..Len(em.compound_emoji_variations[emoji]) :
            \E i \in 1..Len(BuiltFiles) :
                /\ BaseGlyphIs(i, emoji)
                /\ em.compound_emoji_variations[emoji][k].filename = BuiltFiles[i]
                /\ Cardinality(VariationsOf(emoji, BuiltFiles[i])) = 1

\* C15: after create_emoji_mapping every entry of the two dicts comes from
\* the listing of the folder, a folder that does not exist leaves both dicts
\* empty, and the same call made again leaves the same dicts
C15_BuiltFromListingOnly ==
    /\ [](em.call.op = "create_emoji_mapping" =>
            /\ EntriesFromListing
            /\ ~BuiltFolder.exists =>
                /\ em.emoji_to_filename = EmptyDict
                /\ em.compound_emoji_variations = EmptyDict)
    /\ [][(em.call.op = "create_emoji_mapping" /\ em'.call = em.call)
            => (/\ em'.emoji_to_filename = em.emoji_to_filename
                /\ em'.compound_emoji_variations = em.compound_emoji_variations)]_vars

\* a manager that had entries has been rebuilt from a listing with a valid file
C15_RebuiltOverEntries ==
    /\ Built
    /\ em.call.had_entries
    /\ em.emoji_to_filename # EmptyDict
    /\ EntriesFromListing

(***************************************************************************)
(* Usage counts  (src/data/managers/data_manager.py and the handlers of    *)
(* src/data/ui/mainwindow_dialog.py that select, copy, favour and clear)   *)
(*                                                                         *)
(* A dict is the sequence of its items <<key, value>> in insertion order,  *)
(* which is the order sorted() keeps among equal counts.                   *)
(***************************************************************************)
\* update_frequently_used_list: at least 2 uses
MinUses == 2

\* update_frequently_used_list: the top 20
FrequentLimit == 20

\* copy_emoji_to_clipboard: the last 50 recent emojis
RecentLimit == 50

\* item in a list
InList(list, item) == \E i \in 1..Len(list) : list[i] = item

\* list.remove(item) for an item of the list
list_remove(list, item) ==
    SubSeq(list, 1, (CHOOSE i \in 1..Len(list) :
                        list[i] = item /\ \A j \in 1..(i - 1) : list[j] # item) - 1)
        \o SubSeq(list, (CHOOSE i \in 1..Len(list) :
                            list[i] = item /\ \A j \in 1..(i - 1) : list[j] # item) + 1,
                  Len(list))

\* list[:limit]
list_head(list, limit) == SubSeq(list, 1, IF Len(list) < limit THEN Len(list) ELSE limit)

\* emoji_usage_count.get(emoji, 0)
usage_count(counts, emoji) ==
    IF \E i \in 1..Len(counts) : counts[i][1] = emoji
    THEN counts[CHOOSE i \in 1..Len(counts) : counts[i][1] = emoji][2]
    ELSE 0

\* emoji_usage_count[emoji] = count
usage_set(counts, emoji, count) ==
    IF \E i \in 1..Len(counts) : counts[i][1] = emoji
    THEN [i \in 1..Len(counts) |-> IF counts[i][1] = emoji THEN <<emoji, count>> ELSE counts[i]]
    ELSE Append(counts, <<emoji, count>>)

\* a variant of at_least_min_uses that takes one use for enough
at_least_one_use(item) == item[2] >= 1

\* update_frequently_used_list, line 224
at_least_min_uses(item) == item[2] >= MinUses

RECURSIVE insert_by_count(_, _)
\* sorted: the place of an item behind the items that do not have a smaller count
insert_by_count(sorted_items, item) ==
    IF sorted_items = <<>> THEN <<item>>
    ELSE IF Head(sorted_items)[2] >= item[2]
    THEN <<Head(sorted_items)>> \o insert_by_count(Tail(sorted_items), item)
    ELSE <<item>> \o sorted_items

RECURSIVE sorted_by_count(_)
\* sorted(items, key=lambda x: x[1], reverse=True), which is stable
sorted_by_count(items) ==
    IF items = <<>> THEN <<>>
    ELSE insert_by_count(sorted_by_count(SubSeq(items, 1, Len(items) - 1)), items[Len(items)])

\* the keys of a list of items
item_keys(items) == [i \in 1..Len(items) |-> items[i][1]]

\* DataManager.update_frequently_used_list: the list it leaves in frequently_used_emojis
update_frequently_used_list(counts) ==
    item_keys(list_head(sorted_by_count(SelectSeq(counts, at_least_min_uses)), FrequentLimit))

\* DataManager.save_data for a key that no save preference disables
save_data(self, key, value) == [self EXCEPT !.data_file[key] = value]

\* update_emoji_usage, lines 208-212
refresh_and_save_usage(self) ==
    save_data(save_data([self EXCEPT !.frequently_used_emojis =
                                        update_frequently_used_list(self.emoji_usage_count)],
                        "emoji_usage_count", self.emoji_usage_count),
              "frequently_used", update_frequently_used_list(self.emoji_usage_count))

\* DataManager.update_emoji_usage
update_emoji_usage(self, emoji) ==
    refresh_and_save_usage(
        [self EXCEPT !.emoji_usage_count =
                        usage_set(@, emoji, usage_count(@, emoji) + 1),
                     !.call.usage_updated = emoji])

\* a variant of add_recent that keeps every entry
add_recent_unbounded(self, emoji) ==
    save_data([self EXCEPT !.recent_emojis =
                            IF InList(@, emoji) THEN @ ELSE <<emoji>> \o @],
              "recent",
              IF InList(self.recent_emojis, emoji) THEN self.recent_emojis
              ELSE <<emoji>> \o self.recent_emojis)

\* copy_emoji_to_clipboard, lines 1093-1100
add_recent(self, emoji) ==
    save_data([self EXCEPT !.recent_emojis =
                            IF InList(@, emoji) THEN @
                            ELSE list_head(<<emoji>> \o @, RecentLimit)],
              "recent",
              IF InList(self.recent_emojis, emoji) THEN self.recent_emojis
              ELSE list_head(<<emoji>> \o self.recent_emojis, RecentLimit))

\* copy_emoji_to_clipboard, line 1105
show_frequently_used(self) ==
    [self EXCEPT !.window_frequently_used_emojis = self.frequently_used_emojis]

\* EmojiPicker.copy_emoji_to_clipboard
copy_emoji_to_clipboard(self, emoji) ==
    show_frequently_used(
        update_emoji_usage(add_recent([self EXCEPT !.clipboard = emoji], emoji), emoji))

\* EmojiPicker.copy_selected_emoji: the Custom package copies the picture of
\* the file, every other package the text
copy_selected_emoji(self) ==
    IF self.selected_emoji = None THEN self
    ELSE IF self.current_emoji_package = "Custom"
    THEN [self EXCEPT !.clipboard = "<pixmap>"]
    ELSE copy_emoji_to_clipboard(self, self.selected_emoji)

\* EmojiPicker.select_emoji_button
select_emoji_button(self, emoji) == [self EXCEPT !.selected_emoji = emoji]

\* EmojiPicker.add_to_favorites
add_to_favorites(self) ==
    IF self.selected_emoji # None /\ ~InList(self.favorite_emojis, self.selected_emoji)
    THEN save_data([self EXCEPT !.favorite_emojis = Append(@, self.selected_emoji)],
                   "favorites", Append(self.favorite_emojis, self.selected_emoji))
    ELSE self

\* EmojiPicker.remove_from_favorites
remove_from_favorites(self) ==
    IF self.selected_emoji # None /\ InList(self.favorite_emojis, self.selected_emoji)
    THEN save_data([self EXCEPT !.favorite_emojis = list_remove(@, self.selected_emoji)],
                   "favorites", list_remove(self.favorite_emojis, self.selected_emoji))
    ELSE self

\* handle_item_click, lines 3804-3817, once the item is selected
clicked(self, item, click_type) ==
    IF click_type = "double"
    THEN IF self.current_emoji_package = "Custom" THEN copy_selected_emoji(self)
         ELSE copy_emoji_to_clipboard(self, item)
    ELSE IF click_type = "shift" /\ self.current_emoji_package # "Custom"
    THEN IF InList(self.favorite_emojis, item) THEN remove_from_favorites(self)
         ELSE add_to_favorites(self)
    ELSE self

\* EmojiPicker.handle_item_click
handle_item_click(self, item, click_type) ==
    clicked(select_emoji_button(self, item), item, click_type)

\* a variant of clear_active_list that resets the usage counts on every tab
clear_active_list_and_usage(self) ==
    save_data(save_data([self EXCEPT !.window_frequently_used_emojis = <<>>,
                                     !.emoji_usage_count = <<>>,
                                     !.frequently_used_emojis = <<>>],
                        "emoji_usage_count", <<>>),
              "frequently_used", <<>>)

\* clear_recent_emojis, lines 4390-4405
clear_active_list(self) ==
    IF self.current_category # "Recent & Favorites" THEN self
    ELSE IF self.current_subcategory = "recent"
    THEN save_data([self EXCEPT !.recent_emojis = <<>>], "recent", <<>>)
    ELSE IF self.current_subcategory = "favorites"
    THEN save_data([self EXCEPT !.favorite_emojis = <<>>], "favorites", <<>>)
    ELSE IF self.current_subcategory = "frequently_used"
    THEN save_data(save_data([self EXCEPT !.window_frequently_used_emojis = <<>>,
                                          !.emoji_usage_count = <<>>,
                                          !.frequently_used_emojis = <<>>],
                             "emoji_usage_count", <<>>),
                   "frequently_used", <<>>)
    ELSE self

\* EmojiPicker.clear_recent_emojis
clear_recent_emojis(self) == [clear_active_list(self) EXCEPT !.selected_emoji = None]

\* refresh_custom_emojis, lines 4648-4650: the two lists of the window; the
\* data file is left as it is
refresh_custom_emojis(self) ==
    [self EXCEPT !.recent_emojis = <<>>, !.favorite_emojis = <<>>]

\* on_subcategory_click, lines 3014-3018
save_last_used_tab(self, category, subcategory) ==
    IF /\ category = "Recent & Favorites"
       /\ subcategory \in {"recent", "favorites", "frequently_used"}
    THEN save_data([self EXCEPT !.last_used_recent_favorites_tab = subcategory],
                   "last_used_recent_favorites_tab", subcategory)
    ELSE self

\* EmojiPicker.on_subcategory_click
on_subcategory_click(self, category, subcategory) ==
    save_last_used_tab([self EXCEPT !.current_category = category,
                                    !.current_subcategory = subcategory],
                       category, subcategory)

\* on_emoji_package_change, lines 3512-3516, 3546-3548 and 3648: what it does
\* to the selection, the tabs and the data file
select_package(self, selected_package) ==
    save_data([self EXCEPT !.current_emoji_package = selected_package,
                           !.selected_emoji = None,
                           !.current_subcategory =
                                IF self.current_category = "Recent & Favorites"
                                THEN self.last_used_recent_favorites_tab ELSE @],
              "last_selected_package", selected_package)

(***************************************************************************)
(* The window and its DataManager under clicks on emojis, tabs and buttons *)
(***************************************************************************)
\* the emojis with a count in the data file of an earlier run
NumSaved == 21

\* the most uses of one emoji
MaxUses == 3

\* the name of the i-th emoji
Emoji(i) == "e" \o ToString(i)

\* the emoji the user clicks: the last one of the data file of an earlier
\* run, an emoji without a count on a first run
ClickedEmojis == {Emoji(NumSaved)}

UsagePackages == {"EmojiTwo", "Custom"}

\* the tabs the user clicks, each with its category
ClickedTabs ==
    {<<"Recent & Favorites", "recent">>, <<"Recent & Favorites", "favorites">>,
     <<"Recent & Favorites", "frequently_used">>, <<"activities", "sport">>}

\* the data file: empty lists on a first run, or what an earlier run saved
\* when each of NumSaved emojis had been copied twice, or what a run saved
\* whose recent list was full of other emojis and whose counts were not kept
DataFiles ==
    {[emoji_usage_count |-> <<>>, frequently_used |-> <<>>, recent |-> <<>>,
      favorites |-> <<>>, last_used_recent_favorites_tab |-> "recent",
      last_selected_package |-> "EmojiTwo"],
     [emoji_usage_count |-> [i \in 1..NumSaved |-> <<Emoji(i), MinUses>>],
      frequently_used |->
        update_frequently_used_list([i \in 1..NumSaved |-> <<Emoji(i), MinUses>>]),
      recent |-> <<>>, favorites |-> <<>>,
      last_used_recent_favorites_tab |-> "recent",
      last_selected_package |-> "EmojiTwo"],
     [emoji_usage_count |-> <<>>, frequently_used |-> <<>>,
      recent |-> [i \in 1..RecentLimit |-> Emoji(NumSaved + i)],
      favorites |-> <<>>, last_used_recent_favorites_tab |-> "recent",
      last_selected_package |-> "EmojiTwo"]}

\* the handler that ran last, the emoji it was given, and the emoji it
\* passed to update_emoji_usage
NoUsageCall == [op |-> "__init__", emoji |-> None, usage_updated |-> None]

\* DataManager.load_data (lines 80-103) and EmojiPicker.__init__ (lines 142-225)
Loaded(data) ==
    [emoji_usage_count |-> data.emoji_usage_count,
     frequently_used_emojis |-> data.frequently_used,
     last_used_recent_favorites_tab |-> data.last_used_recent_favorites_tab,
     data_file |-> data,
     recent_emojis |-> data.recent,
     favorite_emojis |-> data.favorites,
     window_frequently_used_emojis |-> data.frequently_used,
     current_category |-> "Recent & Favorites",
     current_subcategory |-> data.last_used_recent_favorites_tab,
     current_emoji_package |-> data.last_selected_package,
     selected_emoji |-> None,
     clipboard |-> None,
     call |-> NoUsageCall]

InitUsage ==
    /\ dm \in {Loaded(data) : data \in DataFiles}
    /\ em = None
    /\ zoom = None
    /\ combo = None
    /\ CacheIdle
    /\ PathIdle
    /\ ExtractIdle
    /\ PickerIdle

\* the handler has run
Handled(self, op, emoji) ==
    /\ dm' = [self EXCEPT !.call.op = op, !.call.emoji = emoji]
    /\ UNCHANGED <<em, notManagers>>

\* a handler begins
UsageBegin == [dm EXCEPT !.call = NoUsageCall]

\* the emoji has not reached the most uses of the model
Copyable(emoji) == usage_count(dm.emoji_usage_count, emoji) < MaxUses

EmojiClick ==
    /\ \E emoji \in ClickedEmojis :
        Handled(handle_item_click(UsageBegin, emoji, "single"), "on_emoji_click", emoji)

EmojiDoubleClick ==
    /\ \E emoji \in ClickedEmojis :
        /\ Copyable(emoji)
        /\ Handled(handle_item_click(UsageBegin, emoji, "double"), "on_emoji_double_click", emoji)

EmojiShiftClick ==
    /\ \E emoji \in ClickedEmojis :
        Handled(handle_item_click(UsageBegin, emoji, "shift"), "on_emoji_shift_click", emoji)

CopyButton ==
    /\ dm.selected_emoji # None
    /\ Copyable(dm.selected_emoji)
    /\ Handled(copy_selected_emoji(UsageBegin), "copy_selected_emoji", dm.selected_emoji)

\* update_action_buttons_state hides the button for the Custom package
ClearButton ==
    /\ dm.current_emoji_package # "Custom"
    /\ Handled(clear_recent_emojis(UsageBegin), "clear_recent_emojis", None)

SubcategoryClick ==
    /\ \E tab \in ClickedTabs :
        Handled(on_subcategory_click(UsageBegin, tab[1], tab[2]), "on_subcategory_click", None)

PackageSelected ==
    /\ \E selected_package \in UsagePackages :
        Handled(select_package(UsageBegin, selected_package), "on_emoji_package_change", None)

\* refresh_custom_button.clicked; the button is shown for the Custom
\* package only
RefreshCustomClick ==
    /\ dm.current_emoji_package = "Custom"
    /\ Handled(refresh_custom_emojis(UsageBegin), "refresh_custom_emojis", None)

NextUsage ==
    \/ EmojiClick
    \/ EmojiDoubleClick
    \/ EmojiShiftClick
    \/ CopyButton
    \/ ClearButton
    \/ SubcategoryClick
    \/ PackageSelected
    \/ RefreshCustomClick

SpecUsage == InitUsage /\ [][NextUsage]_vars

\* the emojis of the model
AllEmojis == {Emoji(i) : i \in 1..NumSaved}

\* the emojis with at least MinUses uses
FrequentEmojis(self) ==
    {emoji \in AllEmojis : usage_count(self.emoji_usage_count, emoji) >= MinUses}

\* frequently_used_emojis holds emojis with at least MinUses uses, none twice,
\* in the order of non-increasing counts, FrequentLimit of them at most, and
\* leaves out none unless FrequentLimit others have at least its count
FrequentListRight(self) ==
    /\ \A i \in 1..Len(self.frequently_used_emojis) :
        /\ self.frequently_used_emojis[i] \in FrequentEmojis(self)
        /\ \A j \in (i + 1)..Len(self.frequently_used_emojis) :
            /\ self.frequently_used_emojis[j] # self.frequently_used_emojis[i]
            /\ usage_count(self.emoji_usage_count, self.frequently_used_emojis[i])
                >= usage_count(self.emoji_usage_count, self.frequently_used_emojis[j])
    /\ Len(self.frequently_used_emojis) =
        IF Cardinality(FrequentEmojis(self)) < FrequentLimit
        THEN Cardinality(FrequentEmojis(self)) ELSE FrequentLimit
    /\ \A emoji \in FrequentEmojis(self) :
        InList(self.frequently_used_emojis, emoji)
            \/ \A i \in 1..Len(self.frequently_used_emojis) :
                usage_count(self.emoji_usage_count, self.frequently_used_emojis[i])
                    >= usage_count(self.emoji_usage_count, emoji)

\* C16: a call of update_emoji_usage adds one to the count of its emoji,
\* leaves every other count as it was, and leaves in frequently_used_emojis
\* the emojis with at least 2 uses by non-increasing count, cut to the top 20
C16_UsageRecorded ==
    [][dm'.call.usage_updated # None =>
        /\ \A emoji \in AllEmojis :
            usage_count(dm'.emoji_usage_count, emoji) =
                usage_count(dm.emoji_usage_count, emoji)
                    + (IF emoji = dm'.call.usage_updated THEN 1 ELSE 0)
        /\ FrequentListRight(dm')]_vars

\* the emoji left out of a full list has been used once more and heads it
C16_LeftOutEmojiHeadsList ==
    /\ dm.call.usage_updated = Emoji(NumSaved)
    /\ Cardinality(FrequentEmojis(dm)) > FrequentLimit
    /\ Len(dm.frequently_used_emojis) = FrequentLimit
    /\ dm.frequently_used_emojis[1] = Emoji(NumSaved)

\* C17: a usage count is never negative; it gets smaller only when the Clear
\* button is clicked on the frequently-used tab; it gets larger only by one
\* and only for the emoji whose text the handler has put on the clipboard;
\* clicks, shift-clicks, tab clicks and package changes leave every count
C17_UsageFollowsCopies ==
    [][\A emoji \in AllEmojis :
        /\ usage_count(dm'.emoji_usage_count, emoji) >= 0
        /\ usage_count(dm'.emoji_usage_count, emoji) < usage_count(dm.emoji_usage_count, emoji)
            => /\ dm'.call.op = "clear_recent_emojis"
               /\ dm.current_category = "Recent & Favorites"
               /\ dm.current_subcategory = "frequently_used"
        /\ usage_count(dm'.emoji_usage_count, emoji) > usage_count(dm.emoji_usage_count, emoji)
            => /\ dm'.call.op \in {"on_emoji_double_click", "copy_selected_emoji"}
               /\ dm'.clipboard = emoji
               /\ usage_count(dm'.emoji_usage_count, emoji) =
                    usage_count(dm.emoji_usage_count, emoji) + 1
        /\ dm'.call.op \in {"on_emoji_click", "on_emoji_shift_click", "on_subcategory_click",
                            "on_emoji_package_change"}
            => usage_count(dm'.emoji_usage_count, emoji) =
                    usage_count(dm.emoji_usage_count, emoji)]_vars

\* an emoji has been copied and the Clear button clicked on the
\* frequently-used tab
C17_CopiedThenCleared ==
    /\ dm.call.op = "clear_recent_emojis"
    /\ dm.current_subcategory = "frequently_used"
    /\ dm.recent_emojis # <<>>
    /\ dm.emoji_usage_count = <<>>

\* the list has no entry twice
NoDuplicates(list) ==
    \A i, j \in 1..Len(list) : list[i] = list[j] => i = j

\* C27: the recent list never holds an entry twice nor more than 50 entries;
\* a copy of a glyph that is not in the list puts it in front of the others,
\* which keep their order, the last one leaving a full list; a copy of a
\* glyph of the list leaves the list as it is.
C27_RecentListBounded ==
    /\ [](NoDuplicates(dm.recent_emojis) /\ Len(dm.recent_emojis) <= RecentLimit)
    /\ [][dm'.call.usage_updated # None =>
            IF InList(dm.recent_emojis, dm'.call.usage_updated)
            THEN dm'.recent_emojis = dm.recent_emojis
            ELSE /\ dm'.recent_emojis[1] = dm'.call.usage_updated
                 /\ Len(dm'.recent_emojis) =
                      IF Len(dm.recent_emojis) < RecentLimit
                      THEN Len(dm.recent_emojis) + 1 ELSE RecentLimit
                 /\ \A i \in 2..Len(dm'.recent_emojis) :
                      dm'.recent_emojis[i] = dm.recent_emojis[i - 1]]_vars

\* a glyph copied onto a full recent list heads it, and the entry that was
\* last has left
C27_CopiedOntoFullList ==
    /\ Len(dm.recent_emojis) = RecentLimit
    /\ dm.recent_emojis[1] = Emoji(NumSaved)
    /\ dm.call.usage_updated = Emoji(NumSaved)
    /\ ~InList(dm.recent_emojis, Emoji(NumSaved + RecentLimit))

\* the handlers that are the user's actions on the recent list or on the
\* favourites
ListHandlers ==
    {"on_emoji_double_click", "on_emoji_shift_click", "copy_selected_emoji",
     "clear_recent_emojis"}

\* C30: the recent list and the favourites change only in a copy, an add
\* or remove of a favourite, or Clear on their tab
C30_ListsChangeOnlyByListHandlers ==
    [][(dm'.recent_emojis # dm.recent_emojis
          \/ dm'.favorite_emojis # dm.favorite_emojis)
        => dm'.call.op \in ListHandlers]_vars

(***************************************************************************)
(* Emoji size: the size input and the +/- buttons                          *)
(* (src/data/ui/mainwindow_dialog.py)                                      *)
(***************************************************************************)
\* EmojiPicker.__init__: self.predefined_sizes
predefined_sizes == <<16, 24, 32, 48, 64, 96, 128, 192, 256, 384, 512>>

\* EmojiPicker.__init__: the emoji size when none is restored
DefaultEmojiSize == 48

\* on_size_input_change: the least and the greatest size accepted
MinEmojiSize == 1
MaxEmojiSize == 618

\* reversed(sizes)
reversed(sizes) == [i \in 1..Len(sizes) |-> sizes[Len(sizes) + 1 - i]]

\* no size lies in the direction
NoSizeFound == 0

\* adjust_emoji_size: the first size of the loop that passes its test
RECURSIVE first_beyond(_, _, _)
first_beyond(sizes, current_size, direction) ==
    IF sizes = <<>> THEN NoSizeFound
    ELSE IF (direction > 0 /\ Head(sizes) > current_size)
            \/ (direction < 0 /\ Head(sizes) < current_size)
    THEN Head(sizes)
    ELSE first_beyond(Tail(sizes), current_size, direction)

\* self.emoji_size = size; self.size_input.setText(str(size));
\* save_data('emoji_size', ...); refresh_emoji_display()
set_emoji_size(self, size) ==
    [self EXCEPT !.emoji_size = size, !.size_input = size,
                 !.saved_emoji_size = size, !.call.refreshed = TRUE]

\* EmojiPicker.adjust_emoji_size
adjust_emoji_size(self, direction) ==
    LET current_size == self.emoji_size
        sizes == IF direction > 0 THEN predefined_sizes
                 ELSE reversed(predefined_sizes)
        size == first_beyond(sizes, current_size, direction)
        boundary_size == predefined_sizes[IF direction > 0
                                          THEN Len(predefined_sizes) ELSE 1]
    IN IF size # NoSizeFound THEN set_emoji_size(self, size)
       ELSE IF current_size # boundary_size
       THEN set_emoji_size(self, boundary_size)
       ELSE self

\* EmojiPicker.on_size_input_change on a text that int() accepts
size_input_change(self, typed) ==
    LET new_size == IF typed < MinEmojiSize THEN MinEmojiSize
                    ELSE IF typed > MaxEmojiSize THEN MaxEmojiSize
                    ELSE typed
    IN set_emoji_size(self, new_size)

\* the size handler that ran last, the size it found and its direction
SizeCall(op, before, direction) ==
    [op |-> op, before |-> before, direction |-> direction, refreshed |-> FALSE]

\* EmojiPicker.__init__ with no size restored
InitSize ==
    /\ zoom = [emoji_size |-> DefaultEmojiSize, size_input |-> DefaultEmojiSize,
               saved_emoji_size |-> DefaultEmojiSize,
               call |-> SizeCall("__init__", 0, 0)]
    /\ em = None
    /\ dm = None
    /\ combo = None
    /\ CacheIdle
    /\ PathIdle
    /\ ExtractIdle
    /\ PickerIdle

\* size_input.editingFinished with a number typed
SizeTyped ==
    /\ \E typed \in 0..MaxTyped :
         zoom' = size_input_change(
                    [zoom EXCEPT !.call = SizeCall("on_size_input_change", 0, 0)],
                    typed)
    /\ UNCHANGED notZoom

\* size_input.editingFinished with a text that int() rejects: the except
\* branch puts the current size back into the input
SizeMistyped ==
    /\ zoom' = [zoom EXCEPT !.size_input = zoom.emoji_size,
                            !.call = SizeCall("ValueError", 0, 0)]
    /\ UNCHANGED notZoom

\* the + button: on_increase_size
IncreaseSize ==
    /\ zoom' = adjust_emoji_size(
                  [zoom EXCEPT !.call = SizeCall("adjust_emoji_size",
                                                 zoom.emoji_size, 1)], 1)
    /\ UNCHANGED notZoom

\* the - button: on_decrease_size
DecreaseSize ==
    /\ zoom' = adjust_emoji_size(
                  [zoom EXCEPT !.call = SizeCall("adjust_emoji_size",
                                                 zoom.emoji_size, -1)], -1)
    /\ UNCHANGED notZoom

NextSize ==
    \/ SizeTyped
    \/ SizeMistyped
    \/ IncreaseSize
    \/ DecreaseSize

SpecSize == InitSize /\ [][NextSize]_vars

\* the predefined sizes strictly in the direction of the last call
SizesBeyond ==
    {predefined_sizes[i] : i \in DOMAIN predefined_sizes}
        \cap (IF zoom.call.direction > 0
              THEN (zoom.call.before + 1)..predefined_sizes[Len(predefined_sizes)]
              ELSE 1..(zoom.call.before - 1))

\* C26: from a size in 1..618 the + button never gives a smaller size and
\* the - button never a larger one, and when a predefined size lies strictly
\* in the direction the result is the nearest of them
C26_AdjustMovesInDirection ==
    (zoom.call.op = "adjust_emoji_size"
        /\ zoom.call.before \in MinEmojiSize..MaxEmojiSize) =>
        /\ zoom.call.direction > 0 => zoom.emoji_size >= zoom.call.before
        /\ zoom.call.direction < 0 => zoom.emoji_size <= zoom.call.before
        /\ SizesBeyond # {} =>
              /\ zoom.emoji_size \in SizesBeyond
              /\ \A size \in SizesBeyond :
                    IF zoom.call.direction > 0 THEN zoom.emoji_size <= size
                    ELSE zoom.emoji_size >= size

(***************************************************************************)
(* The package dropdown: EmojiPicker.__init__, init_ui and the selection   *)
(* of a package  (src/data/ui/mainwindow_dialog.py)                        *)
(***************************************************************************)
\* init_ui: preferred_order; on_emoji_package_change: package_names
package_names ==
    <<"EmojiTwo", "Noto", "OpenMoji", "Segoe UI Emoji", "Twemoji", "Kaomoji", "Custom">>

\* the attribute has not been assigned
NoAttribute == "<no attribute>"

AttributeError == "AttributeError"

\* PackageManager.packages: the packages of type system_font
SystemFontPackages == {"Segoe UI Emoji"}

\* EmojiPicker.filter_unavailable_system_fonts; self.current_emoji_package is
\* read for a package whose font is missing
filter_unavailable_system_fonts(self, families) ==
    LET packages_to_remove == {package_name \in self.emoji_packages \cap SystemFontPackages :
                                  package_name \notin families}
    IN IF packages_to_remove # {} /\ self.current_emoji_package = NoAttribute
       THEN [self EXCEPT !.started = AttributeError]
       ELSE [self EXCEPT !.emoji_packages = @ \ packages_to_remove,
                         !.current_emoji_package =
                            IF @ \in packages_to_remove THEN "EmojiTwo" ELSE @]

\* EmojiPicker.__init__, lines 150-155
restore_package(self) ==
    [self EXCEPT !.current_emoji_package =
        IF self.preference THEN self.saved_package ELSE "EmojiTwo"]

\* list.index(value), counted from 0; ValueError is -1
list_index(list, value) ==
    IF \E i \in 1..Len(list) : list[i] = value
    THEN (CHOOSE i \in 1..Len(list) :
             list[i] = value /\ \A j \in 1..(i - 1) : list[j] # value) - 1
    ELSE ValueError

\* init_ui, lines 1662-1685: the dropdown and its index
init_package_combo(self) ==
    LET ordered_package_names ==
            SelectSeq(package_names, LAMBDA name : name \in self.emoji_packages)
        current_index == list_index(ordered_package_names, self.current_emoji_package)
    IN IF current_index # ValueError
       THEN [self EXCEPT !.items = ordered_package_names,
                         !.current_index = current_index]
       ELSE [self EXCEPT !.items = ordered_package_names,
                         !.current_index = 0,
                         !.current_emoji_package =
                            IF ordered_package_names # <<>>
                            THEN ordered_package_names[1] ELSE "EmojiTwo"]

\* EmojiPicker.__init__: the exception of filter_unavailable_system_fonts
\* ends it
EmojiPicker_init(self, families) ==
    IF filter_unavailable_system_fonts(self, families).started = AttributeError
    THEN filter_unavailable_system_fonts(self, families)
    ELSE init_package_combo(restore_package(
            filter_unavailable_system_fonts(self, families)))

\* the handler of the dropdown that ran last, its index, and the package
\* that was current before it
ComboCall(op, index, before) == [op |-> op, index |-> index, before |-> before]

\* the window before __init__ has assigned current_emoji_package
NewWindow(preference, saved_package) ==
    [started |-> "ok", emoji_packages |-> PackageNames, items |-> <<>>,
     current_index |-> -1, current_emoji_package |-> NoAttribute,
     preference |-> preference, saved_package |-> saved_package,
     call |-> ComboCall("__init__", -1, NoAttribute)]

\* last_selected_package of the data file
SavedPackages == PackageNames \cup {"Unknown"}

\* the font families of the system: with or without Segoe UI Emoji
FontFamilies == {{"Segoe UI Emoji"}, {}}

InitCombo ==
    /\ combo \in {EmojiPicker_init(NewWindow(preference, saved_package), families) :
                    preference \in BOOLEAN, saved_package \in SavedPackages,
                    families \in FontFamilies}
    /\ em = None
    /\ dm = None
    /\ zoom = None
    /\ CacheIdle
    /\ PathIdle
    /\ ExtractIdle
    /\ PickerIdle

\* on_emoji_package_change, lines 3497-3513 and 3648: the current package
\* and the data file (the rest of the handler is in the model of the window)
change_package(self, index) ==
    IF 0 <= index /\ index < Len(package_names)
    THEN [self EXCEPT !.current_emoji_package = package_names[index + 1],
                      !.saved_package = package_names[index + 1]]
    ELSE self

\* QComboBox.setCurrentIndex: currentIndexChanged is emitted when the index
\* changes
setCurrentIndex(self, index) ==
    IF index = self.current_index THEN self
    ELSE change_package([self EXCEPT !.current_index = index], index)

\* EmojiPicker.navigate_to_next_package
navigate_to_next_package(self) ==
    setCurrentIndex(self, IF self.current_index + 1 >= Len(self.items) THEN 0
                          ELSE self.current_index + 1)

\* EmojiPicker.navigate_to_previous_package
navigate_to_previous_package(self) ==
    setCurrentIndex(self, IF self.current_index - 1 < 0 THEN Len(self.items) - 1
                          ELSE self.current_index - 1)

\* the user picks an item of the dropdown
ComboSelect ==
    /\ combo.started = "ok"
    /\ \E index \in 0..(Len(combo.items) - 1) :
         /\ index # combo.current_index
         /\ combo' = setCurrentIndex(
                [combo EXCEPT !.call = ComboCall("on_emoji_package_change", index,
                                                 combo.current_emoji_package)], index)
    /\ UNCHANGED notCombo

\* the Page Down shortcut
NextPackageKey ==
    /\ combo.started = "ok"
    /\ combo' = navigate_to_next_package(
            [combo EXCEPT !.call = ComboCall("navigate_to_next_package", -1,
                                             combo.current_emoji_package)])
    /\ UNCHANGED notCombo

\* the Page Up shortcut
PreviousPackageKey ==
    /\ combo.started = "ok"
    /\ combo' = navigate_to_previous_package(
            [combo EXCEPT !.call = ComboCall("navigate_to_previous_package", -1,
                                             combo.current_emoji_package)])
    /\ UNCHANGED notCombo

NextCombo ==
    \/ ComboSelect
    \/ NextPackageKey
    \/ PreviousPackageKey

SpecCombo == InitCombo /\ [][NextCombo]_vars

\* C21: the window starts, also without the font of a system-font
\* package, and from then on current_emoji_package is the item shown at the
\* index of the dropdown and a key of emoji_packages
C21_CurrentPackageIsShown ==
    /\ combo.started = "ok"
    /\ combo.current_index \in 0..(Len(combo.items) - 1)
    /\ combo.current_emoji_package = combo.items[combo.current_index + 1]
    /\ combo.current_emoji_package \in combo.emoji_packages

(***************************************************************************)
(* Properties of the picker                                                *)
(***************************************************************************)
\* C1: an icon that create_emoji_icon or create_category_icon returns from
\* the cache equals the icon a fresh render under the current configuration
\* produces: no handler serves a cached icon that differs from the fresh one.
C1_CachedIconIsFresh == obs.stale = {}

C6_RepeatedRequestServedFromCache == ~obs.repeat_missed

\* C6: a handler repeated an earlier request and got the stored icon
C6_RepeatedRequestSeen == obs.repeat_served

\* C7: whenever an icon is resolved for a file-based package, emoji_to_filename
\* is the index built from the current emoji_folder.
C7_IndexBuiltFromCurrentFolder == ~obs.stale_index

\* C18: an icon create_emoji_icon returns for a request that is not a
\* category icon is inverted exactly when contrast_enabled is set, and an
\* icon it returns for a category icon is not inverted
C18_InvertedIffContrastEnabled == ~obs.contrast_differs /\ ~obs.category_inverted

C20_NoSetOnNonPositiveCapacity == ~(max_size <= 0 /\ last.op = "set")

\* C29: a set whose key was already in the cache leaves the set of keys as
\* it was before the call, also when the cache was at capacity
C29_SetOfPresentKeyKeepsKeys ==
    (last.op = "set" /\ last.result = None
        /\ CacheContains(last.before, last.key))
    => CacheKeys(icon_cache) = CacheKeys(last.before)

\* C25: contrast mode is on only while the Black variant is selected
C25_ContrastOnlyInBlack == picker.contrast_enabled => ~picker.color_checked

\* C28: when update_emoji_folder clears the entries of the old folder, no
\* key of the cache has fewer than three components
C28_ScopedClearSeesNoShortKey == ~obs.index_error

\* the Custom package was shown, its files were found and their icons
\* stored under (image path, size); then the user left for a package of
\* files and a later handler cleared the entries of the folder it left
C28_ScopedClearAfterCustom ==
    /\ obs.scoped
    /\ obs.handler # "on_emoji_package_change"
    /\ picker.current_emoji_package # "Custom"
    /\ \E fmt \in {"png", "svg"} : picker.custom_emoji_formats_available[fmt]

====
